---------------------------- MODULE Spec2Model ----------------------------
(***************************************************************************)
(* A model of the native Solana programs of this repository.               *)
(*                                                                         *)
(* AMM (defi/amm/native/program): the four instruction handlers of         *)
(* processor.rs over a ledger of pool records, SPL token accounts and      *)
(* mints.  The token, associated-token and system programs the handlers    *)
(* call by CPI are modelled by what each call does to the ledger; the      *)
(* runtime's transaction semantics (an instruction that returns Err or     *)
(* panics leaves no effect) is the operator Execute.                       *)
(*                                                                         *)
(* u64 and u128 values are little-endian sequences of bytes without        *)
(* trailing zero bytes (zero is <<>>), so that the real widths of the      *)
(* program's integers (8 and 16 bytes) are kept: the model checker's own   *)
(* integers are 32 bits wide.                                              *)
(***************************************************************************)
EXTENDS Integers, Sequences, FiniteSets, TLC

VARIABLES
    pools,   \* pool address -> LiquidityPool record (the accounts the program owns)
    tokens,  \* token account address -> amount (initialized SPL token accounts)
    mints,   \* mint address -> [supply, authority] (initialized SPL mints)
    account_data,  \* address -> data as bytes: the accounts of the movie-review
                   \* program and of the swap-pool program
    lamports,  \* address -> lamports, of the accounts of the swap-pool program
               \* and of its payer
    last,    \* the last instruction processed: its input, result and computed values
    steps    \* number of instructions processed so far

vars == <<pools, tokens, mints, account_data, lamports, last, steps>>

---------------------------------------------------------------------------
(* Unsigned integers as byte sequences *)

Base == 256

U64Bytes == 8

U128Bytes == 16

RECURSIVE Norm(_)
Norm(s) == IF s = <<>> THEN <<>>
           ELSE IF s[Len(s)] = 0 THEN Norm(SubSeq(s, 1, Len(s) - 1)) ELSE s

RECURSIVE FromInt(_)
FromInt(i) == IF i = 0 THEN <<>> ELSE <<i % Base>> \o FromInt(i \div Base)

Zero == <<>>

One == <<1>>

Limb(s, i) == IF i <= Len(s) THEN s[i] ELSE 0

Rest(s) == IF s = <<>> THEN <<>> ELSE Tail(s)

RECURSIVE AddCarry(_, _, _)
AddCarry(a, b, c) ==
    IF a = <<>> /\ b = <<>> THEN (IF c = 0 THEN <<>> ELSE <<c>>)
    ELSE LET d == Limb(a, 1) + Limb(b, 1) + c
         IN  <<d % Base>> \o AddCarry(Rest(a), Rest(b), d \div Base)

Add(a, b) == AddCarry(a, b, 0)

RECURSIVE LtFrom(_, _, _)
LtFrom(a, b, i) == IF i = 0 THEN FALSE
                   ELSE IF a[i] # b[i] THEN a[i] < b[i]
                   ELSE LtFrom(a, b, i - 1)

Lt(a, b) == IF Len(a) # Len(b) THEN Len(a) < Len(b) ELSE LtFrom(a, b, Len(a))

Le(a, b) == ~Lt(b, a)

Min(a, b) == IF Le(a, b) THEN a ELSE b

RECURSIVE SubBorrow(_, _, _)
SubBorrow(a, b, c) ==
    IF a = <<>> THEN <<>>
    ELSE LET d == a[1] - Limb(b, 1) - c
         IN  <<d % Base>> \o SubBorrow(Tail(a), Rest(b), IF d < 0 THEN 1 ELSE 0)

\* a - b for a >= b
Sub(a, b) == Norm(SubBorrow(a, b, 0))

RECURSIVE MulSmallCarry(_, _, _)
MulSmallCarry(a, k, c) ==
    IF a = <<>> THEN FromInt(c)
    ELSE LET d == a[1] * k + c
         IN  <<d % Base>> \o MulSmallCarry(Tail(a), k, d \div Base)

MulSmall(a, k) == IF k = 0 THEN <<>> ELSE MulSmallCarry(a, k, 0)

ShiftLimb(a) == IF a = <<>> THEN <<>> ELSE <<0>> \o a

\* the exact product
RECURSIVE Mul(_, _)
Mul(a, b) == IF b = <<>> THEN <<>>
             ELSE Add(MulSmall(a, b[1]), ShiftLimb(Mul(a, Tail(b))))

RECURSIVE QDigit(_, _, _, _)
QDigit(cur, b, acc, bit) ==
    IF bit = 0 THEN acc
    ELSE IF Le(MulSmall(b, acc + bit), cur) THEN QDigit(cur, b, acc + bit, bit \div 2)
    ELSE QDigit(cur, b, acc, bit \div 2)

\* one step of the long division: the next byte d of the dividend joins the
\* remainder so far
DivStep(d, hi, b) ==
    LET cur == Norm(<<d>> \o hi.r)
        qd  == QDigit(cur, b, 0, Base \div 2)
    IN  [q |-> Norm(<<qd>> \o hi.q), r |-> Sub(cur, MulSmall(b, qd))]

\* quotient and remainder of a by b, b # 0 (long division, one byte at a time)
\* (the test on hi.q makes the higher bytes be divided first, whatever their quotient)
RECURSIVE DivMod(_, _)
DivMod(a, b) ==
    IF a = <<>> THEN [q |-> <<>>, r |-> <<>>]
    ELSE LET hi == DivMod(Tail(a), b)
         IN  IF hi.q = <<>> THEN DivStep(a[1], hi, b) ELSE DivStep(a[1], hi, b)

Div(a, b) == DivMod(a, b).q

\* the low n bytes of a: a modulo 2^(8n), what a wrapping operation or an `as` cast keeps
Low(a, n) == Norm(SubSeq(a, 1, IF Len(a) < n THEN Len(a) ELSE n))

Fits(a, n) == Len(a) <= n

\* 2^(8n)
RECURSIVE Pow2Bytes(_)
Pow2Bytes(n) == IF n = 0 THEN One ELSE <<0>> \o Pow2Bytes(n - 1)

\* u64::MAX
U64Max == Sub(Pow2Bytes(U64Bytes), One)

\* integer_sqrt: the largest r with r * r <= n, found one byte of r at a time
RECURSIVE SqrtDigit(_, _, _, _)
SqrtDigit(n, hi, acc, bit) ==
    IF bit = 0 THEN acc
    ELSE LET r == Norm(<<acc + bit>> \o hi)
         IN  IF Le(Mul(r, r), n) THEN SqrtDigit(n, hi, acc + bit, bit \div 2)
             ELSE SqrtDigit(n, hi, acc, bit \div 2)

RECURSIVE integer_sqrt(_)
integer_sqrt(n) ==
    IF n = <<>> THEN <<>>
    ELSE LET hi == integer_sqrt(Rest(Rest(n)))
         IN  Norm(<<SqrtDigit(n, hi, 0, Base \div 2)>> \o hi)

---------------------------------------------------------------------------
(* Addresses.  Every address is a tuple that starts with its kind. *)

Wallet(name) == <<"wallet", name>>

MintKey(name) == <<"mint", name>>

Program(name) == <<"program", name>>

token_program_id == Program("token")

associated_token_program_id == Program("associated_token")

system_program_id == Program("system")

\* The order of Pubkey on the mints of the model.
KeyRank(k) == CASE k = MintKey("X") -> 1
                [] k = MintKey("Y") -> 2
                [] OTHER -> 3

\* A variant of KeyLt: the first key always counts as the lower one, so a pair of
\* mints is taken in the order it is passed.
KeyLtAsPassed(k1, k2) == TRUE

KeyLt(k1, k2) == KeyRank(k1) < KeyRank(k2)

\* The bump seed find_program_address stops at for these seeds: the highest bump
\* whose address is off the curve.  Which one it is depends on the hash; here it is
\* 255 for a pair of distinct mints and 254 for a mint paired with itself.
CanonicalBump(lo, hi, fee) == IF lo = hi THEN 254 ELSE 255

\* Pubkey::find_program_address(&[b"pool", lo, hi, fee_bps.to_le_bytes()], program_id)
find_program_address(lo, hi, fee) ==
    [key |-> <<"pool", lo, hi, fee>>, bump |-> CanonicalBump(lo, hi, fee)]

\* Pubkey::create_program_address(&[b"pool", lo, hi, fee, &[bump]], program_id):
\* the canonical address for the canonical bump, an error for a higher bump (those
\* are on the curve, or find_program_address would have stopped there), and for a
\* lower bump either an error or some other address, as the hash falls (on_curve).
create_program_address(lo, hi, fee, bump, on_curve) ==
    IF bump = CanonicalBump(lo, hi, fee)
    THEN [ok |-> TRUE, key |-> <<"pool", lo, hi, fee>>]
    ELSE IF bump > CanonicalBump(lo, hi, fee) \/ on_curve
    THEN [ok |-> FALSE, key |-> <<"none">>]
    ELSE [ok |-> TRUE, key |-> <<"pda", lo, hi, fee, bump>>]

\* Pubkey::find_program_address(&[b"lp_mint", pool.key], program_id).0
lp_mint_address(pool) == <<"lp_mint", pool>>

\* spl_associated_token_account::get_associated_token_address(wallet, mint)
get_associated_token_address(wallet, mint) == <<"ata", wallet, mint>>

\* A token account that is not the associated one: <<"alt", owner, mint>>.
OtherTokenAccount(owner, mint) == <<"alt", owner, mint>>

IsTokenAccountKey(k) == k[1] \in {"ata", "alt"}

TokenOwner(k) == k[2]

TokenMint(k) == k[3]

---------------------------------------------------------------------------
(* The ledger the handlers act on, and the programs they call. *)

Ledger(p, t, m) == [pools |-> p, tokens |-> t, mints |-> m]

\* The result of one cross-program invocation: the ledger after it, or an error.
CpiOk(S) == [ok |-> TRUE, err |-> "Ok", S |-> S]

CpiErr(S, e) == [ok |-> FALSE, err |-> e, S |-> S]

\* system_instruction::create_account for the pool record: the address signs by
\* its seeds and must not be in use; the new record is zeroed.
create_pool_account(S, pool) ==
    IF pool \in DOMAIN S.pools THEN CpiErr(S, "System:AccountAlreadyInUse")
    ELSE CpiOk([S EXCEPT !.pools = S.pools @@ (pool :>
             [mint_a |-> <<"none">>, mint_b |-> <<"none">>, reserve_a |-> Zero,
              reserve_b |-> Zero, fee_bps |-> 0, bump |-> 0])])

\* create_associated_token_account: fails when the account already exists
create_associated_token_account(S, wallet, mint) ==
    LET ata == get_associated_token_address(wallet, mint)
    IN  IF mint \notin DOMAIN S.mints THEN CpiErr(S, "Token:InvalidMint")
        ELSE IF ata \in DOMAIN S.tokens THEN CpiErr(S, "AssociatedToken:IllegalOwner")
        ELSE CpiOk([S EXCEPT !.tokens = S.tokens @@ (ata :> Zero)])

\* create_associated_token_account_idempotent: the account passed must be the
\* associated address; an existing one is left as it is
create_associated_token_account_idempotent(S, account, wallet, mint) ==
    LET ata == get_associated_token_address(wallet, mint)
    IN  IF account # ata THEN CpiErr(S, "AssociatedToken:InvalidSeeds")
        ELSE IF mint \notin DOMAIN S.mints THEN CpiErr(S, "Token:InvalidMint")
        ELSE IF ata \in DOMAIN S.tokens THEN CpiOk(S)
        ELSE CpiOk([S EXCEPT !.tokens = S.tokens @@ (ata :> Zero)])

\* create_account + initialize_mint2 for the LP mint (authority: the pool)
create_lp_mint(S, mint_lp, authority) ==
    IF mint_lp \in DOMAIN S.mints THEN CpiErr(S, "System:AccountAlreadyInUse")
    ELSE CpiOk([S EXCEPT !.mints = S.mints @@ (mint_lp :>
             [supply |-> Zero, authority |-> authority])])

\* spl_token transfer_checked (the checks of the token program, in its order)
transfer_checked(S, source, mint, destination, authority, signers, amount) ==
    IF source \notin DOMAIN S.tokens \/ destination \notin DOMAIN S.tokens
    THEN CpiErr(S, "Token:InvalidAccountData")
    ELSE IF Lt(S.tokens[source], amount) THEN CpiErr(S, "Token:InsufficientFunds")
    ELSE IF TokenMint(source) # TokenMint(destination) THEN CpiErr(S, "Token:MintMismatch")
    ELSE IF TokenMint(source) # mint THEN CpiErr(S, "Token:MintMismatch")
    ELSE IF TokenOwner(source) # authority THEN CpiErr(S, "Token:OwnerMismatch")
    ELSE IF authority \notin signers THEN CpiErr(S, "MissingRequiredSignature")
    ELSE IF source = destination \/ amount = Zero THEN CpiOk(S)
    ELSE IF ~Fits(Add(S.tokens[destination], amount), U64Bytes)
    THEN CpiErr(S, "Token:Overflow")
    ELSE CpiOk([S EXCEPT !.tokens = [S.tokens EXCEPT
             ![source] = Sub(@, amount), ![destination] = Add(@, amount)]])

\* spl_token mint_to
mint_to(S, mint, account, authority, signers, amount) ==
    IF account \notin DOMAIN S.tokens \/ mint \notin DOMAIN S.mints
    THEN CpiErr(S, "Token:InvalidAccountData")
    ELSE IF TokenMint(account) # mint THEN CpiErr(S, "Token:MintMismatch")
    ELSE IF S.mints[mint].authority # authority THEN CpiErr(S, "Token:OwnerMismatch")
    ELSE IF authority \notin signers THEN CpiErr(S, "MissingRequiredSignature")
    ELSE IF amount = Zero THEN CpiOk(S)
    ELSE IF ~Fits(Add(S.tokens[account], amount), U64Bytes)
            \/ ~Fits(Add(S.mints[mint].supply, amount), U64Bytes)
    THEN CpiErr(S, "Token:Overflow")
    ELSE CpiOk([S EXCEPT !.tokens = [S.tokens EXCEPT ![account] = Add(@, amount)],
                         !.mints = [S.mints EXCEPT ![mint].supply = Add(@, amount)]])

\* spl_token burn
burn(S, account, mint, authority, signers, amount) ==
    IF account \notin DOMAIN S.tokens \/ mint \notin DOMAIN S.mints
    THEN CpiErr(S, "Token:InvalidAccountData")
    ELSE IF Lt(S.tokens[account], amount) THEN CpiErr(S, "Token:InsufficientFunds")
    ELSE IF TokenMint(account) # mint THEN CpiErr(S, "Token:MintMismatch")
    ELSE IF TokenOwner(account) # authority THEN CpiErr(S, "Token:OwnerMismatch")
    ELSE IF authority \notin signers THEN CpiErr(S, "MissingRequiredSignature")
    ELSE IF amount = Zero THEN CpiOk(S)
    ELSE CpiOk([S EXCEPT !.tokens = [S.tokens EXCEPT ![account] = Sub(@, amount)],
                         !.mints = [S.mints EXCEPT ![mint].supply = Sub(@, amount)]])

---------------------------------------------------------------------------
(* Rust integer operations *)

BPS == 10000

\* An unchecked +, - or * whose exact result is `exact`: a panic in a build with
\* overflow-checks, the low bytes otherwise.
Unchecked(exact, bytes, overflow_checks) ==
    IF Fits(exact, bytes) THEN [panic |-> FALSE, v |-> exact]
    ELSE IF overflow_checks THEN [panic |-> TRUE, v |-> Zero]
    ELSE [panic |-> FALSE, v |-> Low(exact, bytes)]

\* a - b, unchecked
UncheckedSub(a, b, bytes, overflow_checks) ==
    IF Le(b, a) THEN [panic |-> FALSE, v |-> Sub(a, b)]
    ELSE IF overflow_checks THEN [panic |-> TRUE, v |-> Zero]
    ELSE [panic |-> FALSE, v |-> Sub(Add(Pow2Bytes(bytes), a), b)]

\* checked_mul, checked_add: None when the result does not fit
Checked(exact, bytes) == [some |-> Fits(exact, bytes), v |-> exact]

\* checked_sub
CheckedSub(a, b) == IF Le(b, a) THEN [some |-> TRUE, v |-> Sub(a, b)]
                    ELSE [some |-> FALSE, v |-> Zero]

---------------------------------------------------------------------------
(* The handlers.  Each returns the result, the ledger as the handler and its    *)
(* CPIs left it (also when it fails part-way), the number of CPIs that went     *)
(* through and the amounts it computed.                                         *)

NoCalc == [computed |-> FALSE]

Res(result, S, cpis, calc) == [result |-> result, S |-> S, cpis |-> cpis, calc |-> calc]

\* The result of a chain of CPIs r1, r2, ...: the first error, with the ledger there.
CpiFailed(rs, S0, calc) ==
    LET n == CHOOSE i \in 1..Len(rs) : ~rs[i].ok /\ \A j \in 1..(i - 1) : rs[j].ok
    IN  Res(rs[n].err, rs[n].S, n - 1, calc)

\* try_from_slice_unchecked::<LiquidityPool>(&account.data.borrow()): a pool
\* record; the first 83 bytes of a token account (mint, owner, amount, then zeros
\* when it has no delegate) read as one; an error for an account without data.
pool_data_of(S, key) ==
    IF key \in DOMAIN S.pools THEN [ok |-> TRUE, v |-> S.pools[key]]
    ELSE IF key \in DOMAIN S.tokens
    THEN [ok |-> TRUE, v |-> [mint_a |-> TokenMint(key), mint_b |-> TokenOwner(key),
                              reserve_a |-> S.tokens[key], reserve_b |-> Zero,
                              fee_bps |-> 0, bump |-> 0]]
    ELSE [ok |-> FALSE, v |-> <<>>]

\* the signers of a CPI: the instruction's signers, and with invoke_signed the
\* address the seeds derive
TxSigners(a) == IF a.user_is_signer THEN {a.user} ELSE {}

\* A variant of initial_lp_amount: the arithmetic mean in the place of the
\* geometric one.
arithmetic_mean_lp_amount(amount_a, amount_b) ==
    Low(Div(Add(amount_a, amount_b), FromInt(2)), U64Bytes)

\* mint lp tokens to user_ata_lp: sqrt(amount_a * amount_b) as u64
initial_lp_amount(amount_a, amount_b) ==
    Low(integer_sqrt(Mul(amount_a, amount_b)), U64Bytes)

\* the record process_create_pool writes
new_pool_data(a, amount_a, amount_b, fee_bps, pool_bump) ==
    [mint_a |-> a.mint_a, mint_b |-> a.mint_b, reserve_a |-> amount_a,
     reserve_b |-> amount_b, fee_bps |-> fee_bps, bump |-> pool_bump]

\* the checks of process_create_pool on its accounts, in the order of the code:
\* the error, or "Ok"
create_pool_account_checks(a, fee_bps) ==
    LET mint_lo == IF KeyLt(a.mint_a, a.mint_b) THEN a.mint_a ELSE a.mint_b
        mint_hi == IF KeyLt(a.mint_a, a.mint_b) THEN a.mint_b ELSE a.mint_a
        pda == find_program_address(mint_lo, mint_hi, fee_bps)
    IN  IF ~a.user_is_signer THEN "MissingRequiredSignature"
        ELSE IF a.mint_a = a.mint_b THEN "IdenticalMints"
        ELSE IF a.pool # pda.key THEN "PoolAddressMismatch"
        ELSE IF a.vault_a # get_associated_token_address(a.pool, a.mint_a)
        THEN "VaultAddressMismatch"
        ELSE IF a.vault_b # get_associated_token_address(a.pool, a.mint_b)
        THEN "VaultAddressMismatch"
        ELSE IF a.mint_lp # lp_mint_address(a.pool) THEN "LpMintAddressMismatch"
        ELSE IF a.token_program # token_program_id THEN "IncorrectProgramId"
        ELSE IF a.associated_token_program # associated_token_program_id
        THEN "IncorrectProgramId"
        ELSE IF a.system_program # system_program_id THEN "IncorrectProgramId"
        ELSE "Ok"

\* A variant of create_pool_checks without the limit on fee_bps.
create_pool_checks_without_fee_limit(a, amount_a, amount_b, fee_bps) ==
    IF create_pool_account_checks(a, fee_bps) # "Ok"
    THEN create_pool_account_checks(a, fee_bps)
    ELSE IF amount_a = Zero \/ amount_b = Zero THEN "ZeroLiquidityAmount"
    ELSE "Ok"

\* A variant of create_pool_checks without the check of the amounts.
create_pool_checks_without_amounts(a, amount_a, amount_b, fee_bps) ==
    IF create_pool_account_checks(a, fee_bps) # "Ok"
    THEN create_pool_account_checks(a, fee_bps)
    ELSE IF fee_bps > BPS THEN "FeeTooHigh"
    ELSE "Ok"

\* all the checks of process_create_pool: the accounts, then the amounts, then the fee
create_pool_checks(a, amount_a, amount_b, fee_bps) ==
    IF create_pool_account_checks(a, fee_bps) # "Ok"
    THEN create_pool_account_checks(a, fee_bps)
    ELSE IF amount_a = Zero \/ amount_b = Zero THEN "ZeroLiquidityAmount"
    ELSE IF fee_bps > BPS THEN "FeeTooHigh"
    ELSE "Ok"

process_create_pool(S, a, amount_a, amount_b, fee_bps) ==
    LET mint_lo == IF KeyLt(a.mint_a, a.mint_b) THEN a.mint_a ELSE a.mint_b
        mint_hi == IF KeyLt(a.mint_a, a.mint_b) THEN a.mint_b ELSE a.mint_a
        pda == find_program_address(mint_lo, mint_hi, fee_bps)
        checks == create_pool_checks(a, amount_a, amount_b, fee_bps)
        user_signs == TxSigners(a)
        pool_signs == TxSigners(a) \cup {pda.key}
        lp_amount == initial_lp_amount(amount_a, amount_b)
        calc == [computed |-> TRUE, lp_amount |-> lp_amount]
        r1 == create_pool_account(S, a.pool)
        r2 == IF r1.ok THEN create_associated_token_account(r1.S, a.pool, a.mint_a) ELSE r1
        r3 == IF r2.ok THEN create_associated_token_account(r2.S, a.pool, a.mint_b) ELSE r2
        r4 == IF r3.ok THEN transfer_checked(r3.S, a.user_ata_a, a.mint_a, a.vault_a,
                                             a.user, user_signs, amount_a) ELSE r3
        r5 == IF r4.ok THEN transfer_checked(r4.S, a.user_ata_b, a.mint_b, a.vault_b,
                                             a.user, user_signs, amount_b) ELSE r4
        r6 == IF r5.ok THEN create_lp_mint(r5.S, a.mint_lp, a.pool) ELSE r5
        r7 == IF r6.ok THEN create_associated_token_account_idempotent(
                                r6.S, a.user_ata_lp, a.user, a.mint_lp) ELSE r6
        r8 == IF r7.ok THEN mint_to(r7.S, a.mint_lp, a.user_ata_lp, a.pool,
                                    pool_signs, lp_amount) ELSE r7
    IN  IF checks # "Ok" THEN Res(checks, S, 0, NoCalc)
        ELSE IF ~r8.ok THEN CpiFailed(<<r1, r2, r3, r4, r5, r6, r7, r8>>, S, calc)
        ELSE Res("Ok",
                 [r8.S EXCEPT !.pools[a.pool] =
                     new_pool_data(a, amount_a, amount_b, fee_bps, pda.bump)],
                 8, calc)

\* A variant of updated_pool_data: the record is written with the mints in
\* sorted order.
updated_pool_data_sorted(pool_data, reserve_a, reserve_b) ==
    [pool_data EXCEPT !.reserve_a = reserve_a, !.reserve_b = reserve_b,
                      !.mint_a = IF KeyLt(pool_data.mint_a, pool_data.mint_b)
                                 THEN pool_data.mint_a ELSE pool_data.mint_b,
                      !.mint_b = IF KeyLt(pool_data.mint_a, pool_data.mint_b)
                                 THEN pool_data.mint_b ELSE pool_data.mint_a]

\* The record a handler serializes back into the pool account: the one it read,
\* with `pool_data.reserve_a = ...; pool_data.reserve_b = ...` applied.
updated_pool_data(pool_data, reserve_a, reserve_b) ==
    [pool_data EXCEPT !.reserve_a = reserve_a, !.reserve_b = reserve_b]

\* A variant of provide_take: the b branch prices the a side with the
\* reserves exchanged, amount_b_desired * reserve_b / reserve_a.
provide_take_at_inverse_price(reserve_a, reserve_b, amount_a_desired, amount_b_desired) ==
    LET m1 == Checked(Mul(amount_a_desired, reserve_b), U128Bytes)
        b_needed == Div(m1.v, reserve_a)
        m2 == Checked(Mul(amount_b_desired, reserve_b), U128Bytes)
    IN  IF ~m1.some THEN [err |-> "ArithmeticOverflow"]
        ELSE IF reserve_a = Zero THEN [err |-> "Panic"]
        ELSE IF Le(b_needed, amount_b_desired)
        THEN [err |-> "Ok", take_a |-> amount_a_desired, take_b |-> b_needed]
        ELSE IF ~m2.some THEN [err |-> "ArithmeticOverflow"]
        ELSE [err |-> "Ok", take_a |-> Div(m2.v, reserve_a), take_b |-> amount_b_desired]

\* A variant of provide_take: the a side is always taken whole, whatever
\* amount_b_desired allows.
provide_take_of_a_side(reserve_a, reserve_b, amount_a_desired, amount_b_desired) ==
    LET m1 == Checked(Mul(amount_a_desired, reserve_b), U128Bytes)
    IN  IF ~m1.some THEN [err |-> "ArithmeticOverflow"]
        ELSE IF reserve_a = Zero THEN [err |-> "Panic"]
        ELSE [err |-> "Ok", take_a |-> amount_a_desired, take_b |-> Div(m1.v, reserve_a)]

\* The proportional intake of process_provide_liquidity (u128 arithmetic):
\* b_needed = amount_a_desired * reserve_b / reserve_a, then the branch.
provide_take(reserve_a, reserve_b, amount_a_desired, amount_b_desired) ==
    LET m1 == Checked(Mul(amount_a_desired, reserve_b), U128Bytes)
        b_needed == Div(m1.v, reserve_a)
        m2 == Checked(Mul(amount_b_desired, reserve_a), U128Bytes)
    IN  IF ~m1.some THEN [err |-> "ArithmeticOverflow"]
        ELSE IF reserve_a = Zero THEN [err |-> "Panic"]
        ELSE IF Le(b_needed, amount_b_desired)
        THEN [err |-> "Ok", take_a |-> amount_a_desired, take_b |-> b_needed]
        ELSE IF ~m2.some THEN [err |-> "ArithmeticOverflow"]
        ELSE IF reserve_b = Zero THEN [err |-> "Panic"]
        ELSE [err |-> "Ok", take_a |-> Div(m2.v, reserve_b), take_b |-> amount_b_desired]

\* if take_a < amount_a_min as u128 || take_b < amount_b_min as u128
provide_slippage(take_a, take_b, amount_a_min, amount_b_min) ==
    Lt(take_a, amount_a_min) \/ Lt(take_b, amount_b_min)

\* calculate lp tokens to mint: min(take_a * total_lp / reserve_a,
\* take_b * total_lp / reserve_b) as u64, the products unchecked
provide_lp_amount(take_a, take_b, total_lp, reserve_a, reserve_b, overflow_checks) ==
    LET pa == Unchecked(Mul(take_a, total_lp), U128Bytes, overflow_checks)
        pb == Unchecked(Mul(take_b, total_lp), U128Bytes, overflow_checks)
    IN  IF pa.panic \/ reserve_a = Zero THEN [err |-> "Panic"]
        ELSE IF pb.panic \/ reserve_b = Zero THEN [err |-> "Panic"]
        ELSE [err |-> "Ok",
              lp_amount |-> Low(Min(Div(pa.v, reserve_a), Div(pb.v, reserve_b)), U64Bytes)]

\* the address checks shared by process_provide_liquidity and
\* process_withdraw_liquidity, on the record read from the pool account
pool_account_checks(a, pool_data, on_curve) ==
    LET mint_lo == IF KeyLt(pool_data.mint_a, pool_data.mint_b)
                   THEN pool_data.mint_a ELSE pool_data.mint_b
        mint_hi == IF KeyLt(pool_data.mint_a, pool_data.mint_b)
                   THEN pool_data.mint_b ELSE pool_data.mint_a
        expected_pool == create_program_address(mint_lo, mint_hi, pool_data.fee_bps,
                                                pool_data.bump, on_curve)
    IN  IF ~expected_pool.ok THEN "InvalidSeeds"
        ELSE IF expected_pool.key # a.pool THEN "PoolAddressMismatch"
        ELSE IF a.mint_a # pool_data.mint_a THEN "MintAddressMismatch"
        ELSE IF a.mint_b # pool_data.mint_b THEN "MintAddressMismatch"
        ELSE IF a.vault_a # get_associated_token_address(a.pool, a.mint_a)
        THEN "VaultAddressMismatch"
        ELSE IF a.vault_b # get_associated_token_address(a.pool, a.mint_b)
        THEN "VaultAddressMismatch"
        ELSE IF a.mint_lp # lp_mint_address(a.pool) THEN "LpMintAddressMismatch"
        ELSE "Ok"

process_provide_liquidity(S, a, amount_a_desired, amount_b_desired, amount_a_min, amount_b_min, env) ==
    LET pd == pool_data_of(S, a.pool)
        pool_data == pd.v
        checks == pool_account_checks(a, pool_data, env.on_curve)
        take == provide_take(pool_data.reserve_a, pool_data.reserve_b,
                             amount_a_desired, amount_b_desired)
        total_lp == IF a.mint_lp \in DOMAIN S.mints THEN S.mints[a.mint_lp].supply
                    ELSE Zero
        lp == provide_lp_amount(take.take_a, take.take_b, total_lp,
                                pool_data.reserve_a, pool_data.reserve_b,
                                env.overflow_checks)
        calc == [computed |-> TRUE, take_a |-> take.take_a, take_b |-> take.take_b,
                 lp_amount |-> IF lp.err = "Ok" THEN lp.lp_amount ELSE Zero,
                 lp_computed |-> lp.err = "Ok",
                 reserve_a |-> pool_data.reserve_a, reserve_b |-> pool_data.reserve_b,
                 total_lp |-> total_lp]
        user_signs == TxSigners(a)
        pool_signs == TxSigners(a) \cup {a.pool}
        r1 == transfer_checked(S, a.user_ata_a, a.mint_a, a.vault_a, a.user,
                               user_signs, take.take_a)
        r2 == IF r1.ok THEN transfer_checked(r1.S, a.user_ata_b, a.mint_b, a.vault_b,
                                             a.user, user_signs, take.take_b) ELSE r1
        r3 == IF r2.ok THEN mint_to(r2.S, a.mint_lp, a.user_ata_lp, a.pool,
                                    pool_signs, lp.lp_amount) ELSE r2
        new_a == Checked(Add(pool_data.reserve_a, take.take_a), U64Bytes)
        new_b == Checked(Add(pool_data.reserve_b, take.take_b), U64Bytes)
    IN  IF ~a.user_is_signer THEN Res("MissingRequiredSignature", S, 0, NoCalc)
        ELSE IF ~pd.ok THEN Res("BorshIoError", S, 0, NoCalc)
        ELSE IF checks # "Ok" THEN Res(checks, S, 0, NoCalc)
        ELSE IF amount_a_desired = Zero \/ amount_b_desired = Zero
        THEN Res("ZeroLiquidityAmount", S, 0, NoCalc)
        ELSE IF take.err # "Ok" THEN Res(take.err, S, 0, NoCalc)
        ELSE IF provide_slippage(take.take_a, take.take_b, amount_a_min, amount_b_min)
        THEN Res("SlippageExceed", S, 0, calc)
        ELSE IF a.mint_lp \notin DOMAIN S.mints THEN Res("InvalidAccountData", S, 0, calc)
        ELSE IF lp.err # "Ok" THEN Res(lp.err, S, 0, calc)
        ELSE IF ~Fits(take.take_a, U64Bytes) \/ ~Fits(take.take_b, U64Bytes)
        THEN Res("ArithmeticOverflow", S, 0, calc)
        ELSE IF ~r3.ok THEN CpiFailed(<<r1, r2, r3>>, S, calc)
        ELSE IF ~new_a.some \/ ~new_b.some THEN Res("ArithmeticOverflow", r3.S, 3, calc)
        ELSE Res("Ok",
                 [r3.S EXCEPT !.pools[a.pool] =
                                  updated_pool_data(pool_data, new_a.v, new_b.v)],
                 3, calc)

\* A variant of withdraw_amounts: the shares are taken of the supply that is left
\* once amount_lp_in is burnt.
withdraw_amounts_of_remaining_supply(amount_lp_in, reserve_a, reserve_b, total_lp) ==
    LET ma == Checked(Mul(amount_lp_in, reserve_a), U128Bytes)
        mb == Checked(Mul(amount_lp_in, reserve_b), U128Bytes)
        left == IF Lt(amount_lp_in, total_lp) THEN Sub(total_lp, amount_lp_in) ELSE One
    IN  IF total_lp = Zero THEN [err |-> "UninitializedAccount"]
        ELSE IF ~ma.some \/ ~mb.some THEN [err |-> "ArithmeticOverflow"]
        ELSE [err |-> "Ok", a_out |-> Div(ma.v, left), b_out |-> Div(mb.v, left)]

\* compute withdrawal amounts: amount_lp_in * reserve / total_lp (u128)
withdraw_amounts(amount_lp_in, reserve_a, reserve_b, total_lp) ==
    LET ma == Checked(Mul(amount_lp_in, reserve_a), U128Bytes)
        mb == Checked(Mul(amount_lp_in, reserve_b), U128Bytes)
    IN  IF total_lp = Zero THEN [err |-> "UninitializedAccount"]
        ELSE IF ~ma.some \/ ~mb.some THEN [err |-> "ArithmeticOverflow"]
        ELSE [err |-> "Ok", a_out |-> Div(ma.v, total_lp), b_out |-> Div(mb.v, total_lp)]

\* if a_out < amount_a_min as u128 || b_out < amount_b_min as u128
withdraw_slippage(a_out, b_out, amount_a_min, amount_b_min) ==
    Lt(a_out, amount_a_min) \/ Lt(b_out, amount_b_min)

\* A variant of withdraw_cpis: the two transfers first, the burn last.
withdraw_cpis_burning_last(S, a, amount_lp_in, a_out, b_out) ==
    LET user_signs == TxSigners(a)
        pool_signs == TxSigners(a) \cup {a.pool}
        r1 == transfer_checked(S, a.vault_a, a.mint_a, a.user_ata_a, a.pool,
                               pool_signs, a_out)
        r2 == IF r1.ok THEN transfer_checked(r1.S, a.vault_b, a.mint_b, a.user_ata_b,
                                             a.pool, pool_signs, b_out) ELSE r1
        r3 == IF r2.ok THEN burn(r2.S, a.user_ata_lp, a.mint_lp, a.user, user_signs,
                                 amount_lp_in) ELSE r2
    IN  <<r1, r2, r3>>

\* The CPIs of process_withdraw_liquidity in the order of the code, each on the
\* ledger the one before it left: burn lp tokens from user_ata_lp, transfer a_out
\* from vault_a to user_ata_a, transfer b_out from vault_b to user_ata_b (the
\* transfers signed with the pool's seeds).  The `?` after each invoke returns at
\* the first error.
withdraw_cpis(S, a, amount_lp_in, a_out, b_out) ==
    LET user_signs == TxSigners(a)
        pool_signs == TxSigners(a) \cup {a.pool}
        r1 == burn(S, a.user_ata_lp, a.mint_lp, a.user, user_signs, amount_lp_in)
        r2 == IF r1.ok THEN transfer_checked(r1.S, a.vault_a, a.mint_a, a.user_ata_a,
                                             a.pool, pool_signs, a_out) ELSE r1
        r3 == IF r2.ok THEN transfer_checked(r2.S, a.vault_b, a.mint_b, a.user_ata_b,
                                             a.pool, pool_signs, b_out) ELSE r2
    IN  <<r1, r2, r3>>

process_withdraw_liquidity(S, a, amount_lp_in, amount_a_min, amount_b_min, env) ==
    LET pd == pool_data_of(S, a.pool)
        pool_data == pd.v
        checks == pool_account_checks(a, pool_data, env.on_curve)
        total_lp == IF a.mint_lp \in DOMAIN S.mints THEN S.mints[a.mint_lp].supply
                    ELSE Zero
        out == withdraw_amounts(amount_lp_in, pool_data.reserve_a, pool_data.reserve_b,
                                total_lp)
        a_out == Low(out.a_out, U64Bytes)
        b_out == Low(out.b_out, U64Bytes)
        calc == [computed |-> TRUE, a_out |-> out.a_out, b_out |-> out.b_out,
                 reserve_a |-> pool_data.reserve_a, reserve_b |-> pool_data.reserve_b,
                 total_lp |-> total_lp]
        rs == withdraw_cpis(S, a, amount_lp_in, a_out, b_out)
        r3 == rs[3]
        new_a == CheckedSub(pool_data.reserve_a, a_out)
        new_b == CheckedSub(pool_data.reserve_b, b_out)
    IN  IF ~a.user_is_signer THEN Res("MissingRequiredSignature", S, 0, NoCalc)
        ELSE IF amount_lp_in = Zero THEN Res("ZeroLiquidityAmount", S, 0, NoCalc)
        ELSE IF ~pd.ok THEN Res("BorshIoError", S, 0, NoCalc)
        ELSE IF checks # "Ok" THEN Res(checks, S, 0, NoCalc)
        ELSE IF a.mint_lp \notin DOMAIN S.mints THEN Res("InvalidAccountData", S, 0, NoCalc)
        ELSE IF out.err # "Ok" THEN Res(out.err, S, 0, NoCalc)
        ELSE IF withdraw_slippage(out.a_out, out.b_out, amount_a_min, amount_b_min)
        THEN Res("SlippageExceed", S, 0, calc)
        ELSE IF ~r3.ok THEN CpiFailed(rs, S, calc)
        ELSE IF ~new_a.some \/ ~new_b.some THEN Res("ArithmeticOverflow", r3.S, 3, calc)
        ELSE Res("Ok",
                 [r3.S EXCEPT !.pools[a.pool] =
                                  updated_pool_data(pool_data, new_a.v, new_b.v)],
                 3, calc)

\* amount_in_post_fee = (amount_in as u128) * (10_000 - fee_bps), and
\* amount_out = ((reserve_out * amount_in_post_fee)
\*               / (reserve_in * 10_000 + amount_in_post_fee)) as u64,
\* every operation unchecked
swap_amount_out(reserve_in, reserve_out, amount_in, fee_bps, overflow_checks) ==
    LET keep == IF fee_bps <= BPS
                THEN [panic |-> FALSE, v |-> FromInt(BPS - fee_bps)]
                ELSE UncheckedSub(FromInt(BPS), FromInt(fee_bps), U128Bytes,
                                  overflow_checks)
        amount_in_post_fee == Unchecked(Mul(amount_in, keep.v), U128Bytes, overflow_checks)
        numerator == Unchecked(Mul(reserve_out, amount_in_post_fee.v), U128Bytes,
                               overflow_checks)
        scaled == Unchecked(Mul(reserve_in, FromInt(BPS)), U128Bytes, overflow_checks)
        denominator == Unchecked(Add(scaled.v, amount_in_post_fee.v), U128Bytes,
                                 overflow_checks)
    IN  IF keep.panic \/ amount_in_post_fee.panic \/ numerator.panic \/ scaled.panic
        THEN [err |-> "Panic"]
        ELSE IF denominator.panic \/ denominator.v = Zero THEN [err |-> "Panic"]
        ELSE [err |-> "Ok", amount_out |-> Low(Div(numerator.v, denominator.v), U64Bytes)]

\* A variant of swap_slippage: no minimum is enforced.
swap_without_minimum(amount_out, min_out) == FALSE

\* if amount_out < min_out
swap_slippage(amount_out, min_out) == Lt(amount_out, min_out)

\* the reserve update at the end of process_swap (+= and -= on u64)
swap_new_reserves(pool_data, mint_in, amount_in, amount_out, overflow_checks) ==
    LET up_a == Unchecked(Add(pool_data.reserve_a, amount_in), U64Bytes, overflow_checks)
        dn_b == UncheckedSub(pool_data.reserve_b, amount_out, U64Bytes, overflow_checks)
        dn_a == UncheckedSub(pool_data.reserve_a, amount_out, U64Bytes, overflow_checks)
        up_b == Unchecked(Add(pool_data.reserve_b, amount_in), U64Bytes, overflow_checks)
    IN  IF mint_in = pool_data.mint_a
        THEN [panic |-> up_a.panic \/ dn_b.panic, reserve_a |-> up_a.v, reserve_b |-> dn_b.v]
        ELSE [panic |-> dn_a.panic \/ up_b.panic, reserve_a |-> dn_a.v, reserve_b |-> up_b.v]

process_swap(S, a, amount_in, min_out, env) ==
    LET pd == pool_data_of(S, a.pool)
        pool_data == pd.v
        mint_lo == IF KeyLt(a.mint_in, a.mint_out) THEN a.mint_in ELSE a.mint_out
        mint_hi == IF KeyLt(a.mint_in, a.mint_out) THEN a.mint_out ELSE a.mint_in
        expected_pool == create_program_address(mint_lo, mint_hi, pool_data.fee_bps,
                                                pool_data.bump, env.on_curve)
        reserve_in == IF a.mint_in = pool_data.mint_a
                      THEN pool_data.reserve_a ELSE pool_data.reserve_b
        reserve_out == IF a.mint_in = pool_data.mint_a
                       THEN pool_data.reserve_b ELSE pool_data.reserve_a
        out == swap_amount_out(reserve_in, reserve_out, amount_in, pool_data.fee_bps,
                               env.overflow_checks)
        calc == [computed |-> TRUE, reserve_in |-> reserve_in,
                 reserve_out |-> reserve_out, fee_bps |-> pool_data.fee_bps,
                 amount_out |-> out.amount_out]
        user_signs == TxSigners(a)
        pool_signs == TxSigners(a) \cup {expected_pool.key}
        r1 == transfer_checked(S, a.user_ata_in, a.mint_in, a.vault_in, a.user,
                               user_signs, amount_in)
        r2 == IF r1.ok THEN transfer_checked(r1.S, a.vault_out, a.mint_out, a.user_ata_out,
                                             a.pool, pool_signs, out.amount_out) ELSE r1
        upd == swap_new_reserves(pool_data, a.mint_in, amount_in, out.amount_out,
                                 env.overflow_checks)
    IN  IF ~a.user_is_signer THEN Res("MissingRequiredSignature", S, 0, NoCalc)
        ELSE IF amount_in = Zero THEN Res("ZeroSwapAmount", S, 0, NoCalc)
        ELSE IF ~pd.ok THEN Res("BorshIoError", S, 0, NoCalc)
        ELSE IF ~expected_pool.ok THEN Res("InvalidSeeds", S, 0, NoCalc)
        ELSE IF expected_pool.key # a.pool THEN Res("PoolAddressMismatch", S, 0, NoCalc)
        ELSE IF out.err # "Ok" THEN Res(out.err, S, 0, NoCalc)
        ELSE IF swap_slippage(out.amount_out, min_out) THEN Res("SlippageExceed", S, 0, calc)
        ELSE IF ~r2.ok THEN CpiFailed(<<r1, r2>>, S, calc)
        ELSE IF upd.panic THEN Res("Panic", r2.S, 2, calc)
        ELSE Res("Ok",
                 [r2.S EXCEPT !.pools[a.pool] =
                                  updated_pool_data(pool_data, upd.reserve_a, upd.reserve_b)],
                 2, calc)

---------------------------------------------------------------------------
(* Instruction data: the opcode byte, then the payload, decoded by borsh. *)

\* u64::deserialize on the bytes of the payload from offset: eight bytes, little-endian
U64At(rest, offset) == Norm(SubSeq(rest, offset + 1, offset + U64Bytes))

\* u16::deserialize on the bytes of the payload from offset
U16At(rest, offset) == rest[offset + 1] + rest[offset + 2] * Base

\* A variant of try_from_slice: bytes left over after the last field are ignored.
try_from_slice_prefix(rest, size) == Len(rest) >= size

\* BorshDeserialize::try_from_slice on a payload of `size` bytes of fields: too few
\* bytes fail in a field's deserialize, bytes left over fail with "Not all bytes
\* read"
try_from_slice(rest, size) == Len(rest) = size

InvalidInstructionData == [ok |-> FALSE, tag |-> "none"]

\* AmmInstruction::unpack
unpack(input) ==
    IF input = <<>> THEN InvalidInstructionData
    ELSE LET discriminator == Head(input)
             rest == Tail(input)
         IN  CASE discriminator = 0 ->
                    IF ~try_from_slice(rest, U64Bytes + U64Bytes + 2)
                    THEN InvalidInstructionData
                    ELSE [ok |-> TRUE, tag |-> "CreatePool",
                          amount_a |-> U64At(rest, 0),
                          amount_b |-> U64At(rest, U64Bytes),
                          fee_bps |-> U16At(rest, 2 * U64Bytes)]
               [] discriminator = 1 ->
                    IF ~try_from_slice(rest, 4 * U64Bytes)
                    THEN InvalidInstructionData
                    ELSE [ok |-> TRUE, tag |-> "ProvideLiquidity",
                          amount_a_desired |-> U64At(rest, 0),
                          amount_b_desired |-> U64At(rest, U64Bytes),
                          amount_a_min |-> U64At(rest, 2 * U64Bytes),
                          amount_b_min |-> U64At(rest, 3 * U64Bytes)]
               [] discriminator = 2 ->
                    IF ~try_from_slice(rest, 3 * U64Bytes)
                    THEN InvalidInstructionData
                    ELSE [ok |-> TRUE, tag |-> "WithdrawLiquidity",
                          amount_lp_in |-> U64At(rest, 0),
                          amount_a_min |-> U64At(rest, U64Bytes),
                          amount_b_min |-> U64At(rest, 2 * U64Bytes)]
               [] discriminator = 3 ->
                    IF ~try_from_slice(rest, 2 * U64Bytes)
                    THEN InvalidInstructionData
                    ELSE [ok |-> TRUE, tag |-> "Swap",
                          amount_in |-> U64At(rest, 0),
                          min_out |-> U64At(rest, U64Bytes)]
               [] OTHER -> InvalidInstructionData

\* process_instruction: the handler that ran ("none" when the data did not
\* decode) and its result
process_instruction(S, accounts, instruction_data, env) ==
    LET instruction == unpack(instruction_data)
    IN  IF ~instruction.ok
        THEN [handler |-> "none", R |-> Res("InvalidInstructionData", S, 0, NoCalc)]
        ELSE [handler |-> instruction.tag,
              R |-> CASE instruction.tag = "CreatePool" ->
                           process_create_pool(S, accounts, instruction.amount_a,
                                               instruction.amount_b, instruction.fee_bps)
                      [] instruction.tag = "ProvideLiquidity" ->
                           process_provide_liquidity(
                               S, accounts, instruction.amount_a_desired,
                               instruction.amount_b_desired, instruction.amount_a_min,
                               instruction.amount_b_min, env)
                      [] instruction.tag = "WithdrawLiquidity" ->
                           process_withdraw_liquidity(
                               S, accounts, instruction.amount_lp_in,
                               instruction.amount_a_min, instruction.amount_b_min, env)
                      [] instruction.tag = "Swap" ->
                           process_swap(S, accounts, instruction.amount_in,
                                        instruction.min_out, env)]

---------------------------------------------------------------------------
(* The runtime: an instruction that fails leaves the ledger as it was. *)

\* A variant of Execute: what the handler did stays, whatever it returned.
ExecuteWithoutRollback(S, R) == R.S

Execute(S, R) == IF R.result = "Ok" THEN R.S ELSE S

---------------------------------------------------------------------------
(* The accounts and arguments the instructions are tried with. *)

MaxSteps == 3

InitialBalance == 12

User == Wallet("user")

MintX == MintKey("X")

MintY == MintKey("Y")

\* The build of the program: with overflow-checks or without.
Builds == BOOLEAN

\* What a handler does not decide itself: the build, and on which side of the
\* curve the hash of seeds that are not a pool's own falls.
Env(overflow_checks, on_curve) ==
    [overflow_checks |-> overflow_checks, on_curve |-> on_curve]

\* The accounts of CreatePool, ProvideLiquidity and WithdrawLiquidity as a client
\* derives them for the pool of (mint_a, mint_b, fee).
PoolAccounts(mint_a, mint_b, fee) ==
    LET mint_lo == IF KeyLt(mint_a, mint_b) THEN mint_a ELSE mint_b
        mint_hi == IF KeyLt(mint_a, mint_b) THEN mint_b ELSE mint_a
        pool == find_program_address(mint_lo, mint_hi, fee).key
    IN  [user |-> User, user_is_signer |-> TRUE, pool |-> pool,
         mint_a |-> mint_a, mint_b |-> mint_b,
         vault_a |-> get_associated_token_address(pool, mint_a),
         vault_b |-> get_associated_token_address(pool, mint_b),
         mint_lp |-> lp_mint_address(pool),
         user_ata_lp |-> get_associated_token_address(User, lp_mint_address(pool)),
         user_ata_a |-> get_associated_token_address(User, mint_a),
         user_ata_b |-> get_associated_token_address(User, mint_b),
         token_program |-> token_program_id,
         associated_token_program |-> associated_token_program_id,
         system_program |-> system_program_id]

\* The same with one account that is not the derived one.
WrongPoolAccounts(acc) ==
    { [acc EXCEPT !.user_is_signer = FALSE],
      [acc EXCEPT !.pool = <<"pool", acc.mint_a, acc.mint_b, 1>>],
      [acc EXCEPT !.mint_b = acc.mint_a],
      [acc EXCEPT !.vault_a = OtherTokenAccount(User, acc.mint_a)],
      [acc EXCEPT !.vault_b = OtherTokenAccount(User, acc.mint_b)],
      [acc EXCEPT !.mint_lp = acc.mint_a],
      [acc EXCEPT !.token_program = Program("other")] }

\* The same with a token account in the place of the pool record.
TokenAccountAsPool(acc) ==
    [acc EXCEPT !.pool = get_associated_token_address(User, acc.mint_a)]

\* The accounts of Swap for the pool of (mint_in, mint_out, fee).
SwapAccounts(mint_in, mint_out, fee) ==
    LET mint_lo == IF KeyLt(mint_in, mint_out) THEN mint_in ELSE mint_out
        mint_hi == IF KeyLt(mint_in, mint_out) THEN mint_out ELSE mint_in
        pool == find_program_address(mint_lo, mint_hi, fee).key
    IN  [user |-> User, user_is_signer |-> TRUE, pool |-> pool,
         mint_in |-> mint_in, mint_out |-> mint_out,
         vault_in |-> get_associated_token_address(pool, mint_in),
         vault_out |-> get_associated_token_address(pool, mint_out),
         user_ata_in |-> get_associated_token_address(User, mint_in),
         user_ata_out |-> get_associated_token_address(User, mint_out),
         token_program |-> token_program_id,
         associated_token_program |-> associated_token_program_id]

\* Swap takes the two vaults as the caller passes them.
OtherVaultIn(acc) ==
    { [acc EXCEPT !.vault_in = OtherTokenAccount(User, acc.mint_in)],
      [acc EXCEPT !.vault_in = acc.user_ata_in] }

WrongSwapAccounts(acc) ==
    { [acc EXCEPT !.user_is_signer = FALSE],
      [acc EXCEPT !.pool = <<"pool", acc.mint_in, acc.mint_out, 1>>],
      [acc EXCEPT !.mint_out = acc.mint_in],
      [acc EXCEPT !.mint_out = lp_mint_address(acc.pool),
                  !.user_ata_out = get_associated_token_address(User,
                                       lp_mint_address(acc.pool))],
      [acc EXCEPT !.vault_out = OtherTokenAccount(User, acc.mint_out)] }

MintPairs == {<<MintX, MintY>>, <<MintY, MintX>>}

PoolFee == 30

\* on_curve is read only when the seeds are not a pool's own: with a token
\* account in the place of the pool record.
CreateInputs ==
    [a : {PoolAccounts(MintX, MintY, PoolFee)},
     amount_a : {FromInt(2), FromInt(3)}, amount_b : {FromInt(3)}, fee_bps : {PoolFee}]
    \cup [a : {PoolAccounts(MintY, MintX, PoolFee)},
          amount_a : {FromInt(3)}, amount_b : {FromInt(2)}, fee_bps : {PoolFee}]
    \cup [a : WrongPoolAccounts(PoolAccounts(MintX, MintY, PoolFee))
              \cup {TokenAccountAsPool(PoolAccounts(MintX, MintY, PoolFee))},
          amount_a : {FromInt(2)}, amount_b : {FromInt(3)}, fee_bps : {PoolFee}]
    \cup [a : {PoolAccounts(MintX, MintY, PoolFee)},
          amount_a : {Zero, FromInt(2)}, amount_b : {Zero}, fee_bps : {PoolFee}]
    \cup [a : {PoolAccounts(MintX, MintY, BPS + 1)},
          amount_a : {FromInt(2)}, amount_b : {Zero, FromInt(3)}, fee_bps : {BPS + 1}]

ProvideInputs ==
    [a : {PoolAccounts(m[1], m[2], PoolFee) : m \in MintPairs},
     amount_a_desired : {FromInt(1), FromInt(3)},
     amount_b_desired : {FromInt(1), FromInt(3)},
     amount_a_min : {Zero}, amount_b_min : {Zero}, on_curve : {FALSE}]
    \cup [a : {PoolAccounts(MintX, MintY, PoolFee)},
          amount_a_desired : {FromInt(3)}, amount_b_desired : {Zero, FromInt(3)},
          amount_a_min : {Zero, FromInt(3)}, amount_b_min : {FromInt(3)},
          on_curve : {FALSE}]
    \cup [a : WrongPoolAccounts(PoolAccounts(MintX, MintY, PoolFee)),
          amount_a_desired : {FromInt(3)}, amount_b_desired : {FromInt(3)},
          amount_a_min : {Zero}, amount_b_min : {Zero}, on_curve : {FALSE}]
    \cup [a : {TokenAccountAsPool(PoolAccounts(MintX, MintY, PoolFee))},
          amount_a_desired : {FromInt(3)}, amount_b_desired : {FromInt(3)},
          amount_a_min : {Zero}, amount_b_min : {Zero}, on_curve : BOOLEAN]

WithdrawInputs ==
    [a : {PoolAccounts(m[1], m[2], PoolFee) : m \in MintPairs},
     amount_lp_in : {FromInt(n) : n \in 1..3},
     amount_a_min : {Zero}, amount_b_min : {Zero}, on_curve : {FALSE}]
    \cup [a : {PoolAccounts(MintX, MintY, PoolFee)},
          amount_lp_in : {Zero, FromInt(2)},
          amount_a_min : {Zero, FromInt(3)}, amount_b_min : {FromInt(3)},
          on_curve : {FALSE}]
    \cup [a : WrongPoolAccounts(PoolAccounts(MintX, MintY, PoolFee)),
          amount_lp_in : {FromInt(2)}, amount_a_min : {Zero}, amount_b_min : {Zero},
          on_curve : {FALSE}]
    \cup [a : {TokenAccountAsPool(PoolAccounts(MintX, MintY, PoolFee))},
          amount_lp_in : {FromInt(2)}, amount_a_min : {Zero}, amount_b_min : {Zero},
          on_curve : BOOLEAN]

SwapInputs ==
    [a : UNION {{SwapAccounts(m[1], m[2], PoolFee)}
                \cup OtherVaultIn(SwapAccounts(m[1], m[2], PoolFee)) : m \in MintPairs},
     amount_in : {FromInt(1), FromInt(3)}, min_out : {Zero}, on_curve : {FALSE}]
    \cup [a : {SwapAccounts(MintX, MintY, PoolFee)},
          amount_in : {Zero, FromInt(3)}, min_out : {FromInt(1), FromInt(2)},
          on_curve : {FALSE}]
    \cup [a : WrongSwapAccounts(SwapAccounts(MintX, MintY, PoolFee)),
          amount_in : {FromInt(2)}, min_out : {Zero}, on_curve : {FALSE}]
    \cup [a : {[SwapAccounts(MintX, MintY, PoolFee) EXCEPT
                   !.pool = get_associated_token_address(User, MintX)]},
          amount_in : {FromInt(2)}, min_out : {Zero}, on_curve : BOOLEAN]

---------------------------------------------------------------------------
(* The state machine *)

\* What `last` keeps of the instruction before it: whether it was a
\* ProvideLiquidity that succeeded, and then its pool, amounts and LP minted.
NothingProvided == [provided |-> FALSE]

Provided(l) ==
    IF l.op = "ProvideLiquidity" /\ l.result = "Ok"
    THEN [provided |-> TRUE, pool |-> l.input.a.pool,
          amount_a |-> l.input.amount_a_desired, amount_b |-> l.input.amount_b_desired,
          lp_amount |-> l.calc.lp_amount]
    ELSE NothingProvided

NoInstruction ==
    [op |-> "none", input |-> <<>>, result |-> "none", cpis |-> 0, calc |-> NoCalc,
     before |-> NothingProvided]

InitLedger(balance) ==
    /\ pools = [k \in {} |-> 0]
    /\ tokens = (get_associated_token_address(User, MintX) :> balance)
                @@ (get_associated_token_address(User, MintY) :> balance)
                @@ (OtherTokenAccount(User, MintX) :> Zero)
                @@ (OtherTokenAccount(User, MintY) :> Zero)
    /\ mints = (MintX :> [supply |-> balance, authority |-> Wallet("issuer")])
               @@ (MintY :> [supply |-> balance, authority |-> Wallet("issuer")])
    /\ account_data = [k \in {} |-> 0]
    /\ lamports = [k \in {} |-> 0]
    /\ last = NoInstruction
    /\ steps = 0

Init == InitLedger(FromInt(InitialBalance))

\* One instruction: the handler runs on the ledger, and the runtime keeps what it
\* did when it returned Ok.
Process(op, input, R) ==
    /\ LET S == Execute(Ledger(pools, tokens, mints), R)
       IN  /\ pools' = S.pools
           /\ tokens' = S.tokens
           /\ mints' = S.mints
    /\ account_data' = account_data
    /\ lamports' = lamports
    /\ last' = [op |-> op, input |-> input, result |-> R.result, cpis |-> R.cpis,
                calc |-> R.calc, before |-> Provided(last)]
    /\ steps' = steps + 1

DoCreatePool(i) ==
    Process("CreatePool", i,
            process_create_pool(Ledger(pools, tokens, mints), i.a, i.amount_a,
                                i.amount_b, i.fee_bps))

DoProvideLiquidity(i, env) ==
    Process("ProvideLiquidity", i,
            process_provide_liquidity(Ledger(pools, tokens, mints), i.a,
                                      i.amount_a_desired, i.amount_b_desired,
                                      i.amount_a_min, i.amount_b_min, env))

DoWithdrawLiquidity(i, env) ==
    Process("WithdrawLiquidity", i,
            process_withdraw_liquidity(Ledger(pools, tokens, mints), i.a,
                                       i.amount_lp_in, i.amount_a_min, i.amount_b_min,
                                       env))

DoSwap(i, env) ==
    Process("Swap", i,
            process_swap(Ledger(pools, tokens, mints), i.a, i.amount_in, i.min_out, env))

CreatePool ==
    /\ steps < MaxSteps
    /\ \E i \in CreateInputs : DoCreatePool(i)

ProvideLiquidity ==
    /\ steps < MaxSteps
    /\ \E i \in ProvideInputs, oc \in Builds :
           DoProvideLiquidity(i, Env(oc, i.on_curve))

WithdrawLiquidity ==
    /\ steps < MaxSteps
    /\ \E i \in WithdrawInputs, oc \in Builds :
           DoWithdrawLiquidity(i, Env(oc, i.on_curve))

Swap ==
    /\ steps < MaxSteps
    /\ \E i \in SwapInputs, oc \in Builds : DoSwap(i, Env(oc, i.on_curve))

Next == CreatePool \/ ProvideLiquidity \/ WithdrawLiquidity \/ Swap

Spec == Init /\ [][Next]_vars

---------------------------------------------------------------------------
(* The same instructions on amounts of the width of the program's integers: the *)
(* caller holds the whole u64 supply of both mints.                             *)

Half64 == <<0, 0, 0, 0, 0, 0, 0, 128>>

WideFees == {0, PoolFee}

CreateInputsWide ==
    { [a |-> PoolAccounts(MintX, MintY, f), amount_a |-> d[1], amount_b |-> d[2],
       fee_bps |-> f] :
          f \in WideFees, d \in {<<FromInt(1000), FromInt(4000)>>, <<One, Half64>>} }
    \cup { [a |-> PoolAccounts(MintX, MintY, PoolFee), amount_a |-> U64Max,
            amount_b |-> U64Max, fee_bps |-> PoolFee] }

ProvideInputsWide ==
    [a : {PoolAccounts(MintX, MintY, f) : f \in WideFees},
     amount_a_desired : {FromInt(1000)}, amount_b_desired : {FromInt(4000)},
     amount_a_min : {Zero}, amount_b_min : {Zero}, on_curve : {FALSE}]

WithdrawInputsWide ==
    [a : {PoolAccounts(MintX, MintY, f) : f \in WideFees},
     amount_lp_in : {FromInt(2000)},
     amount_a_min : {Zero}, amount_b_min : {Zero}, on_curve : {FALSE}]

SwapInputsWide ==
    [a : UNION {{SwapAccounts(MintX, MintY, f),
                 [SwapAccounts(MintX, MintY, f) EXCEPT
                     !.vault_in = get_associated_token_address(User, MintX)]}
                : f \in WideFees},
     amount_in : {FromInt(100), Half64}, min_out : {Zero}, on_curve : {FALSE}]

InitWide == InitLedger(U64Max)

CreatePoolWide ==
    /\ steps < MaxSteps
    /\ \E i \in CreateInputsWide : DoCreatePool(i)

ProvideLiquidityWide ==
    /\ steps < MaxSteps
    /\ \E i \in ProvideInputsWide, oc \in Builds :
           DoProvideLiquidity(i, Env(oc, i.on_curve))

WithdrawLiquidityWide ==
    /\ steps < MaxSteps
    /\ \E i \in WithdrawInputsWide, oc \in Builds :
           DoWithdrawLiquidity(i, Env(oc, i.on_curve))

SwapWide ==
    /\ steps < MaxSteps
    /\ \E i \in SwapInputsWide, oc \in Builds : DoSwap(i, Env(oc, i.on_curve))

NextWide == CreatePoolWide \/ ProvideLiquidityWide \/ WithdrawLiquidityWide \/ SwapWide

SpecWide == InitWide /\ [][NextWide]_vars

---------------------------------------------------------------------------
(* Longer runs on the same wide amounts: a pool of 2^63 of X and 1 of Y, and *)
(* swaps that name the caller's own X account as vault_in.                  *)

MaxLongSteps == 4

\* 2^63 - 1: what the caller holds of X once 2^63 of it went into the pool
Half64Less1 == <<255, 255, 255, 255, 255, 255, 255, 127>>

\* 2^33
Pow33 == <<0, 0, 0, 0, 2>>

CreateInputsLong ==
    { [a |-> PoolAccounts(MintX, MintY, 0), amount_a |-> Half64, amount_b |-> One,
       fee_bps |-> 0] }

ProvideInputsLong ==
    [a : {PoolAccounts(MintX, MintY, 0)},
     amount_a_desired : {Pow33}, amount_b_desired : {One, Pow33},
     amount_a_min : {Zero}, amount_b_min : {Zero}, on_curve : {FALSE}]

WithdrawInputsLong ==
    [a : {PoolAccounts(MintX, MintY, 0)}, amount_lp_in : {FromInt(1000)},
     amount_a_min : {Zero}, amount_b_min : {Zero}, on_curve : {FALSE}]

SwapInputsLong ==
    [a : {SwapAccounts(MintX, MintY, 0),
          [SwapAccounts(MintX, MintY, 0) EXCEPT
              !.vault_in = get_associated_token_address(User, MintX)]},
     amount_in : {FromInt(2), Half64Less1}, min_out : {Zero}, on_curve : {FALSE}]

CreatePoolLong ==
    /\ steps < MaxLongSteps
    /\ \E i \in CreateInputsLong : DoCreatePool(i)

ProvideLiquidityLong ==
    /\ steps < MaxLongSteps
    /\ \E i \in ProvideInputsLong, oc \in Builds :
           DoProvideLiquidity(i, Env(oc, i.on_curve))

WithdrawLiquidityLong ==
    /\ steps < MaxLongSteps
    /\ \E i \in WithdrawInputsLong, oc \in Builds :
           DoWithdrawLiquidity(i, Env(oc, i.on_curve))

SwapLong ==
    /\ steps < MaxLongSteps
    /\ \E i \in SwapInputsLong, oc \in Builds : DoSwap(i, Env(oc, i.on_curve))

NextLong == CreatePoolLong \/ ProvideLiquidityLong \/ WithdrawLiquidityLong \/ SwapLong

SpecLong == InitWide /\ [][NextLong]_vars

---------------------------------------------------------------------------
(* The program entered with instruction data as bytes. *)

\* n as the eight bytes of a u64, little-endian
U64LE(n) == [k \in 1..U64Bytes |-> IF k <= Len(FromInt(n)) THEN FromInt(n)[k] ELSE 0]

\* n as the two bytes of a u16, little-endian
U16LE(n) == <<n % Base, n \div Base>>

\* Well-formed data of the four instructions, data with a byte too few or too
\* many, data with the payload of another opcode, unknown opcodes, no data.
InstructionData ==
    { <<>>, <<4>>, <<255>> \o U64LE(1) \o U64LE(0), <<3>>,
      <<0>> \o U64LE(2) \o U64LE(3) \o U16LE(PoolFee),
      <<0>> \o U64LE(3) \o U64LE(2) \o U16LE(PoolFee + Base),
      <<0>> \o U64LE(2) \o U64LE(3) \o <<PoolFee>>,
      <<0>> \o U64LE(2) \o U64LE(3) \o U16LE(PoolFee) \o <<0>>,
      <<1>> \o U64LE(3) \o U64LE(2) \o U64LE(1) \o U64LE(0),
      <<1>> \o U64LE(3) \o U64LE(3) \o U64LE(0),
      <<1>> \o U64LE(3) \o U64LE(3) \o U64LE(0) \o U64LE(0) \o <<0>>,
      <<2>> \o U64LE(2) \o U64LE(1) \o U64LE(0),
      <<2>> \o U64LE(2) \o U64LE(0),
      <<2>> \o U64LE(2) \o U64LE(0) \o U64LE(0) \o U64LE(0),
      <<3>> \o U64LE(258) \o U64LE(1),
      <<3>> \o U64LE(1) \o U64LE(0),
      <<3>> \o U64LE(1) \o U64LE(0) \o U16LE(PoolFee),
      <<3>> \o SubSeq(U64LE(1), 1, U64Bytes - 1) \o U64LE(0) }

\* The accounts a client passes with the data: those of Swap with opcode 3, those
\* of the pool of (X, Y) and the fee in the data otherwise.
AccountsFor(data) ==
    IF data # <<>> /\ Head(data) = 3 THEN SwapAccounts(MintX, MintY, PoolFee)
    ELSE IF unpack(data).ok /\ unpack(data).tag = "CreatePool"
    THEN PoolAccounts(MintX, MintY, unpack(data).fee_bps)
    ELSE PoolAccounts(MintX, MintY, PoolFee)

\* The step of process_instruction's result `done`.
ProcessDone(input, done) == Process(done.handler, input, done.R)

DoProcessInstruction(data, accounts, env) ==
    ProcessDone([a |-> accounts, data |-> data, on_curve |-> env.on_curve]
                    @@ unpack(data),
                process_instruction(Ledger(pools, tokens, mints), accounts, data, env))

ProcessInstruction ==
    /\ steps < MaxSteps
    /\ \E data \in InstructionData, oc \in Builds :
           DoProcessInstruction(data, AccountsFor(data), Env(oc, FALSE))

NextInstruction == ProcessInstruction

SpecInstruction == Init /\ [][NextInstruction]_vars

---------------------------------------------------------------------------
(* The movie-review program.  Strings are sequences of bytes; the data of an   *)
(* account is a sequence of bytes, written and read by borsh.                  *)

\* ReviewState::MAX_SPACE
MAX_SPACE == 1000

\* the bytes of a Pubkey
PubkeyBytes == 32

\* solana_program::pubkey::MAX_SEED_LEN
MAX_SEED_LEN == 32

\* LAMPORTS_PER_SOL = 10^9
LAMPORTS_PER_SOL == FromInt(1000000000)

movie_program_id == Program("movie_review")

\* "review", "counter", "comment"
ReviewDiscriminator == <<114, 101, 118, 105, 101, 119>>

CounterDiscriminator == <<99, 111, 117, 110, 116, 101, 114>>

CommentDiscriminator == <<99, 111, 109, 109, 101, 110, 116>>

\* ReviewState::space
review_space(title, description) ==
    (4 + Len(ReviewDiscriminator)) + 1 + PubkeyBytes + 1 + (4 + Len(title))
    + (4 + Len(description))

\* ReviewCommentCounterState::SPACE
COUNTER_SPACE == (4 + Len(CounterDiscriminator)) + 1 + U64Bytes

\* ReviewCommentState::space
comment_space(comment) ==
    (4 + Len(CommentDiscriminator)) + 1 + PubkeyBytes + PubkeyBytes
    + (4 + Len(comment)) + U64Bytes

\* n zero bytes
Zeros(n) == [k \in 1..n |-> 0]

\* bytes, then zeros up to n bytes
PadTo(bytes, n) == bytes \o Zeros(n - Len(bytes))

\* The addresses the program derives.
\* Pubkey::find_program_address(&[reviewer.key, title.as_bytes()], program_id)
review_address(reviewer, title) == <<"review", reviewer, title>>

\* Pubkey::find_program_address(&[movie_review.key, b"counter"], program_id)
counter_address(movie_review) == <<"counter", movie_review>>

\* u64::to_be_bytes
to_be_bytes(v) == [k \in 1..U64Bytes |-> PadTo(v, U64Bytes)[U64Bytes + 1 - k]]

\* Pubkey::find_program_address(&[movie_review.key, counter.to_be_bytes()], program_id)
comment_address(movie_review, counter) == <<"comment", movie_review, to_be_bytes(counter)>>

\* Pubkey::find_program_address(&[b"token_mint"], program_id)
token_mint_address == <<"token_mint">>

\* Pubkey::find_program_address(&[b"mint_auth"], program_id)
mint_auth_address == <<"mint_auth">>

\* The 32 bytes of a key.  Wallet keys and derived addresses are arbitrary
\* distinct values; here a wallet is its code and a review address the code of
\* its reviewer and its title.  Any other 32 bytes are a key <<"raw", bytes>>.
WalletCode(k) == CASE k = Wallet("alice") -> 1
                   [] k = Wallet("bob") -> 2
                   [] OTHER -> 3

KeyBytes(k) ==
    CASE k[1] = "wallet" -> PadTo(<<1, WalletCode(k)>>, PubkeyBytes)
      [] k[1] = "review" -> PadTo(<<2, WalletCode(k[2])>> \o k[3], PubkeyBytes)
      [] k[1] = "raw" -> k[2]

\* the key the 32 bytes are, among the keys in `known`
KeyOf(bytes, known) ==
    IF \E k \in known : KeyBytes(k) = bytes
    THEN CHOOSE k \in known : KeyBytes(k) = bytes
    ELSE <<"raw", bytes>>

\* borsh: a u32 length (below 2^16 here), a String, a bool, a u64
U32LE(n) == <<n % Base, n \div Base, 0, 0>>

BorshString(s) == U32LE(Len(s)) \o s

BorshBool(b) == IF b THEN <<1>> ELSE <<0>>

BorshU64(v) == PadTo(v, U64Bytes)

\* Reading: each reader returns whether it succeeded, the value and the offset
\* after it.  A failed reader makes the readers after it fail.
ReadFail == [ok |-> FALSE, v |-> <<>>, next |-> 0]

ReadBytes(data, from, n) ==
    IF ~from.ok \/ from.next + n > Len(data) THEN ReadFail
    ELSE [ok |-> TRUE, v |-> SubSeq(data, from.next + 1, from.next + n),
          next |-> from.next + n]

\* String::deserialize: the length, then as many bytes, which must be UTF-8
\* (of the bytes used here: those below 128)
ReadString(data, from) ==
    LET len == ReadBytes(data, from, 4)
        n == len.v[1] + len.v[2] * Base
    IN  IF ~len.ok \/ len.v[3] # 0 \/ len.v[4] # 0 THEN ReadFail
        ELSE IF ~ReadBytes(data, len, n).ok THEN ReadFail
        ELSE IF \E k \in 1..n : ReadBytes(data, len, n).v[k] >= 128 THEN ReadFail
        ELSE ReadBytes(data, len, n)

\* bool::deserialize: 0 or 1, any other byte is an error
ReadBool(data, from) ==
    LET b == ReadBytes(data, from, 1)
    IN  IF ~b.ok \/ b.v[1] > 1 THEN ReadFail
        ELSE [ok |-> TRUE, v |-> b.v[1] = 1, next |-> b.next]

ReadU8(data, from) ==
    LET b == ReadBytes(data, from, 1)
    IN  IF ~b.ok THEN ReadFail ELSE [ok |-> TRUE, v |-> b.v[1], next |-> b.next]

ReadU64(data, from) ==
    LET b == ReadBytes(data, from, U64Bytes)
    IN  IF ~b.ok THEN ReadFail ELSE [ok |-> TRUE, v |-> Norm(b.v), next |-> b.next]

ReadPubkey(data, from, known) ==
    LET b == ReadBytes(data, from, PubkeyBytes)
    IN  IF ~b.ok THEN ReadFail
        ELSE [ok |-> TRUE, v |-> KeyOf(b.v, known), next |-> b.next]

ReadStart == [ok |-> TRUE, v |-> <<>>, next |-> 0]

\* ReviewState: BorshSerialize
serialize_review(r) ==
    BorshString(r.discriminator) \o BorshBool(r.is_initialized) \o KeyBytes(r.reviewer)
    \o <<r.rating>> \o BorshString(r.title) \o BorshString(r.description)

\* try_from_slice_unchecked::<ReviewState>: the fields from the start of the
\* data, whatever follows them
deserialize_review(data, known) ==
    LET discriminator == ReadString(data, ReadStart)
        is_initialized == ReadBool(data, discriminator)
        reviewer == ReadPubkey(data, is_initialized, known)
        rating == ReadU8(data, reviewer)
        title == ReadString(data, rating)
        description == ReadString(data, title)
    IN  IF ~description.ok THEN [ok |-> FALSE]
        ELSE [ok |-> TRUE,
              v |-> [discriminator |-> discriminator.v,
                     is_initialized |-> is_initialized.v, reviewer |-> reviewer.v,
                     rating |-> rating.v, title |-> title.v,
                     description |-> description.v]]

\* ReviewCommentCounterState: BorshSerialize
serialize_counter(c) ==
    BorshString(c.discriminator) \o BorshBool(c.is_initialized) \o BorshU64(c.counter)

\* try_from_slice_unchecked::<ReviewCommentCounterState>
deserialize_counter(data) ==
    LET discriminator == ReadString(data, ReadStart)
        is_initialized == ReadBool(data, discriminator)
        counter == ReadU64(data, is_initialized)
    IN  IF ~counter.ok THEN [ok |-> FALSE]
        ELSE [ok |-> TRUE,
              v |-> [discriminator |-> discriminator.v,
                     is_initialized |-> is_initialized.v, counter |-> counter.v]]

\* ReviewCommentState: BorshSerialize
serialize_comment(c) ==
    BorshString(c.discriminator) \o BorshBool(c.is_initialized) \o KeyBytes(c.review)
    \o KeyBytes(c.commenter) \o BorshString(c.comment) \o BorshU64(c.count)

\* try_from_slice_unchecked::<ReviewCommentState>
deserialize_comment(data, known) ==
    LET discriminator == ReadString(data, ReadStart)
        is_initialized == ReadBool(data, discriminator)
        review == ReadPubkey(data, is_initialized, known)
        commenter == ReadPubkey(data, review, known)
        comment == ReadString(data, commenter)
        count == ReadU64(data, comment)
    IN  IF ~count.ok THEN [ok |-> FALSE]
        ELSE [ok |-> TRUE,
              v |-> [discriminator |-> discriminator.v,
                     is_initialized |-> is_initialized.v, review |-> review.v,
                     commenter |-> commenter.v, comment |-> comment.v,
                     count |-> count.v]]

\* A variant of write_data: the data is cut to the bytes written.
write_data_truncating(data, bytes) ==
    IF Len(bytes) > Len(data) THEN [ok |-> FALSE, data |-> data]
    ELSE [ok |-> TRUE, data |-> bytes]

\* value.serialize(&mut &mut account.data.borrow_mut()[..]): the bytes go to the
\* start of the data, the rest of the data stays; an error when they do not fit
write_data(data, bytes) ==
    IF Len(bytes) > Len(data) THEN [ok |-> FALSE, data |-> data]
    ELSE [ok |-> TRUE, data |-> bytes \o SubSeq(data, Len(bytes) + 1, Len(data))]

\* The wallets and titles the instructions are tried with, and the keys a stored
\* Pubkey can be: the wallets and the review addresses.
Alice == Wallet("alice")

Bob == Wallet("bob")

TitleA == <<65>>

TitleB == <<66, 66>>

KnownKeys == {Alice, Bob} \cup {review_address(w, t) : w \in {Alice, Bob}, t \in {TitleA, TitleB}}

\* The accounts of the movie-review program, the token accounts and the mints.
MovieLedger(d, t, m) == [account_data |-> d, tokens |-> t, mints |-> m]

\* account.data: no bytes for an account that holds none
AccountData(S, key) ==
    IF key \in DOMAIN S.account_data THEN S.account_data[key] ELSE <<>>

\* account.owner: the program for the accounts it created, the token program for
\* token accounts and mints, the system program for every other address
AccountOwner(S, key) ==
    IF key \in DOMAIN S.account_data THEN movie_program_id
    ELSE IF key \in DOMAIN S.tokens \cup DOMAIN S.mints THEN token_program_id
    ELSE system_program_id

\* system_instruction::create_account, owner the program: the payer signs, the
\* address signs by its seeds and must not be in use; the data is `space` zeros
create_account(S, payer_is_signer, key, space) ==
    IF ~payer_is_signer THEN CpiErr(S, "MissingRequiredSignature")
    ELSE IF key \in DOMAIN S.account_data \cup DOMAIN S.tokens \cup DOMAIN S.mints
    THEN CpiErr(S, "System:AccountAlreadyInUse")
    ELSE CpiOk([S EXCEPT !.account_data = S.account_data @@ (key :> Zeros(space))])

\* create_account (owner the token program) and initialize_mint2 with 9 decimals
\* and no freeze authority
create_token_mint(S, payer_is_signer, token_mint, mint_auth) ==
    IF ~payer_is_signer THEN CpiErr(S, "MissingRequiredSignature")
    ELSE IF token_mint \in DOMAIN S.account_data \cup DOMAIN S.tokens \cup DOMAIN S.mints
    THEN CpiErr(S, "System:AccountAlreadyInUse")
    ELSE CpiOk([S EXCEPT !.mints = S.mints @@ (token_mint :>
             [supply |-> Zero, authority |-> mint_auth, decimals |-> 9])])

\* the checks of the reward mint's accounts, shared by process_add_movie_review
\* and process_add_comment
reward_account_checks(a, wallet) ==
    IF a.token_mint # token_mint_address THEN "IncorrectAccountError"
    ELSE IF a.mint_auth # mint_auth_address THEN "IncorrectAccountError"
    ELSE IF a.user_ata # get_associated_token_address(wallet, a.token_mint)
    THEN "IncorrectAccountError"
    ELSE IF a.token_program # token_program_id THEN "IncorrectAccountError"
    ELSE "Ok"

\* 10 * LAMPORTS_PER_SOL and 5 * LAMPORTS_PER_SOL
ReviewReward == Mul(FromInt(10), LAMPORTS_PER_SOL)

CommentReward == Mul(FromInt(5), LAMPORTS_PER_SOL)

process_add_movie_review(S, a, title, rating, description) ==
    LET r1 == create_account(S, a.reviewer_is_signer, a.movie_review, MAX_SPACE)
        rd == deserialize_review(AccountData(r1.S, a.movie_review), KnownKeys)
        w1 == write_data(AccountData(r1.S, a.movie_review),
                         serialize_review([rd.v EXCEPT
                             !.discriminator = ReviewDiscriminator,
                             !.reviewer = a.reviewer, !.title = title,
                             !.rating = rating, !.description = description,
                             !.is_initialized = TRUE]))
        S1 == [r1.S EXCEPT !.account_data[a.movie_review] = w1.data]
        r2 == create_account(S1, a.reviewer_is_signer, a.counter, COUNTER_SPACE)
        cd == deserialize_counter(AccountData(r2.S, a.counter))
        w2 == write_data(AccountData(r2.S, a.counter),
                         serialize_counter([cd.v EXCEPT
                             !.discriminator = CounterDiscriminator,
                             !.counter = Zero, !.is_initialized = TRUE]))
        S2 == [r2.S EXCEPT !.account_data[a.counter] = w2.data]
        checks == reward_account_checks(a, a.reviewer)
        r3 == mint_to(S2, a.token_mint, a.user_ata, a.mint_auth, {mint_auth_address},
                      ReviewReward)
    IN  IF ~a.reviewer_is_signer THEN Res("MissingRequiredSignature", S, 0, NoCalc)
        ELSE IF Len(title) > MAX_SEED_LEN THEN Res("Panic", S, 0, NoCalc)
        ELSE IF a.movie_review # review_address(a.reviewer, title)
        THEN Res("InvalidSeeds", S, 0, NoCalc)
        ELSE IF rating < 1 \/ rating > 5 THEN Res("InvalidRating", S, 0, NoCalc)
        ELSE IF review_space(title, description) > MAX_SPACE
        THEN Res("InvalidDataLength", S, 0, NoCalc)
        ELSE IF ~r1.ok THEN Res(r1.err, S, 0, NoCalc)
        ELSE IF ~rd.ok THEN Res("BorshIoError", r1.S, 1, NoCalc)
        ELSE IF rd.v.is_initialized THEN Res("AccountAlreadyInitialized", r1.S, 1, NoCalc)
        ELSE IF ~w1.ok THEN Res("BorshIoError", r1.S, 1, NoCalc)
        ELSE IF a.counter # counter_address(a.movie_review)
        THEN Res("InvalidSeeds", S1, 1, NoCalc)
        ELSE IF ~r2.ok THEN Res(r2.err, S1, 1, NoCalc)
        ELSE IF ~cd.ok THEN Res("BorshIoError", r2.S, 2, NoCalc)
        ELSE IF cd.v.is_initialized THEN Res("AccountAlreadyInitialized", r2.S, 2, NoCalc)
        ELSE IF ~w2.ok THEN Res("BorshIoError", r2.S, 2, NoCalc)
        ELSE IF checks # "Ok" THEN Res(checks, S2, 2, NoCalc)
        ELSE IF ~r3.ok THEN Res(r3.err, S2, 2, NoCalc)
        ELSE Res("Ok", r3.S, 3, NoCalc)

\* A variant of updated_review: the title is replaced as well, by the description.
updated_review_and_title(review, rating, description) ==
    [review EXCEPT !.rating = rating, !.description = description,
                   !.title = description]

\* movie_review_account_data.rating = rating; .description = description
updated_review(review, rating, description) ==
    [review EXCEPT !.rating = rating, !.description = description]

process_update_movie_review(S, a, title, rating, description) ==
    LET rd == deserialize_review(AccountData(S, a.movie_review), KnownKeys)
        w == write_data(AccountData(S, a.movie_review),
                        serialize_review(updated_review(rd.v, rating, description)))
    IN  IF ~a.reviewer_is_signer THEN Res("MissingRequiredSignature", S, 0, NoCalc)
        ELSE IF AccountOwner(S, a.movie_review) # movie_program_id
        THEN Res("InvalidAccountOwner", S, 0, NoCalc)
        ELSE IF Len(title) > MAX_SEED_LEN THEN Res("Panic", S, 0, NoCalc)
        ELSE IF a.movie_review # review_address(a.reviewer, title)
        THEN Res("InvalidSeeds", S, 0, NoCalc)
        ELSE IF ~rd.ok THEN Res("BorshIoError", S, 0, NoCalc)
        ELSE IF ~rd.v.is_initialized THEN Res("UninitializedAccount", S, 0, NoCalc)
        ELSE IF rating < 1 \/ rating > 5 THEN Res("InvalidRating", S, 0, NoCalc)
        ELSE IF review_space(title, description) > MAX_SPACE
        THEN Res("InvalidDataLength", S, 0, NoCalc)
        ELSE IF ~w.ok THEN Res("BorshIoError", S, 0, NoCalc)
        ELSE Res("Ok", [S EXCEPT !.account_data[a.movie_review] = w.data], 0, NoCalc)

\* A variant of next_counter: the counter stays as it is.
next_counter_unchanged(counter) == Checked(counter, U64Bytes)

\* counter_data.counter.checked_add(1)
next_counter(counter) == Checked(Add(counter, One), U64Bytes)

process_add_comment(S, a, comment) ==
    LET cd == deserialize_counter(AccountData(S, a.counter))
        counter_data == cd.v
        r1 == create_account(S, a.commenter_is_signer, a.comment_account,
                             comment_space(comment))
        md == deserialize_comment(AccountData(r1.S, a.comment_account), KnownKeys)
        w1 == write_data(AccountData(r1.S, a.comment_account),
                         serialize_comment([md.v EXCEPT
                             !.discriminator = CommentDiscriminator,
                             !.review = a.movie_review, !.commenter = a.commenter,
                             !.comment = comment, !.count = counter_data.counter,
                             !.is_initialized = TRUE]))
        S1 == [r1.S EXCEPT !.account_data[a.comment_account] = w1.data]
        incremented == next_counter(counter_data.counter)
        w2 == write_data(AccountData(S1, a.counter),
                         serialize_counter([counter_data EXCEPT
                                               !.counter = incremented.v]))
        S2 == [S1 EXCEPT !.account_data[a.counter] = w2.data]
        checks == reward_account_checks(a, a.commenter)
        r2 == mint_to(S2, a.token_mint, a.user_ata, a.mint_auth, {mint_auth_address},
                      CommentReward)
        calc == [computed |-> TRUE, counter |-> counter_data.counter]
    IN  IF ~cd.ok THEN Res("BorshIoError", S, 0, NoCalc)
        ELSE IF a.comment_account # comment_address(a.movie_review, counter_data.counter)
        THEN Res("InvalidSeeds", S, 0, calc)
        ELSE IF ~r1.ok THEN Res(r1.err, S, 0, calc)
        ELSE IF ~md.ok THEN Res("BorshIoError", r1.S, 1, calc)
        ELSE IF md.v.is_initialized THEN Res("AccountAlreadyInitialized", r1.S, 1, calc)
        ELSE IF ~w1.ok THEN Res("BorshIoError", r1.S, 1, calc)
        ELSE IF ~incremented.some THEN Res("ArithmeticOverflow", S1, 1, calc)
        ELSE IF ~w2.ok THEN Res("BorshIoError", S1, 1, calc)
        ELSE IF checks # "Ok" THEN Res(checks, S2, 1, calc)
        ELSE IF ~r2.ok THEN Res(r2.err, S2, 1, calc)
        ELSE Res("Ok", r2.S, 2, calc)

initialize_token_mint(S, a) ==
    LET r1 == create_token_mint(S, a.initializer_is_signer, a.token_mint, a.mint_auth)
    IN  IF a.token_mint # token_mint_address THEN Res("IncorrectAccountError", S, 0, NoCalc)
        ELSE IF a.mint_auth # mint_auth_address
        THEN Res("IncorrectAccountError", S, 0, NoCalc)
        ELSE IF a.token_program # token_program_id
        THEN Res("IncorrectAccountError", S, 0, NoCalc)
        ELSE IF ~r1.ok THEN Res(r1.err, S, 0, NoCalc)
        ELSE Res("Ok", r1.S, 2, NoCalc)

---------------------------------------------------------------------------
(* The movie-review program's instructions, tried by two wallets. *)

MaxMovieSteps == 4

\* descriptions and comments: one byte, three bytes, none, and one that makes
\* the review longer than MAX_SPACE
Text(byte, n) == [k \in 1..n |-> byte]

LongText == Text(100, MAX_SPACE)

\* The accounts of AddMovieReview as a client derives them.
ReviewAccounts(reviewer, title) ==
    [reviewer |-> reviewer, reviewer_is_signer |-> TRUE,
     movie_review |-> review_address(reviewer, title),
     counter |-> counter_address(review_address(reviewer, title)),
     token_mint |-> token_mint_address, mint_auth |-> mint_auth_address,
     user_ata |-> get_associated_token_address(reviewer, token_mint_address),
     system_program |-> system_program_id, token_program |-> token_program_id]

\* The accounts of UpdateMovieReview.
UpdateAccounts(reviewer, title) ==
    [reviewer |-> reviewer, reviewer_is_signer |-> TRUE,
     movie_review |-> review_address(reviewer, title)]

\* The accounts of AddComment on a review, with the account passed as its
\* counter; the comment's address is derived from the counter read in that
\* account, plus `ahead`.
CommentAccounts(S, commenter, movie_review, counter, ahead) ==
    [commenter |-> commenter, commenter_is_signer |-> TRUE,
     movie_review |-> movie_review, counter |-> counter,
     comment_account |->
         comment_address(movie_review,
                         IF deserialize_counter(AccountData(S, counter)).ok
                         THEN Add(deserialize_counter(AccountData(S, counter)).v.counter,
                                  FromInt(ahead))
                         ELSE FromInt(ahead)),
     token_mint |-> token_mint_address, mint_auth |-> mint_auth_address,
     user_ata |-> get_associated_token_address(commenter, token_mint_address),
     system_program |-> system_program_id, token_program |-> token_program_id]

InitializeMintAccounts ==
    [initializer |-> Alice, initializer_is_signer |-> TRUE,
     token_mint |-> token_mint_address, mint_auth |-> mint_auth_address,
     system_program |-> system_program_id, token_program |-> token_program_id]

AddMovieReviewInputs ==
    { [a |-> ReviewAccounts(Alice, TitleA), title |-> TitleA, rating |-> 3,
       description |-> Text(100, 3)],
      [a |-> [ReviewAccounts(Bob, TitleA) EXCEPT
                 !.movie_review = review_address(Alice, TitleA),
                 !.counter = counter_address(review_address(Alice, TitleA))],
       title |-> TitleA, rating |-> 3, description |-> Text(100, 3)],
      [a |-> ReviewAccounts(Bob, TitleB), title |-> TitleB, rating |-> 5,
       description |-> <<>>],
      [a |-> ReviewAccounts(Alice, TitleA), title |-> TitleA, rating |-> 6,
       description |-> Text(100, 3)],
      [a |-> ReviewAccounts(Alice, TitleA), title |-> TitleA, rating |-> 3,
       description |-> LongText],
      [a |-> [ReviewAccounts(Alice, TitleB) EXCEPT
                 !.user_ata = get_associated_token_address(Bob, token_mint_address)],
       title |-> TitleB, rating |-> 1, description |-> <<>>] }

UpdateMovieReviewInputs ==
    { [a |-> UpdateAccounts(Alice, TitleA), title |-> TitleA, rating |-> 5,
       description |-> Text(101, 1)],
      [a |-> UpdateAccounts(Alice, TitleA), title |-> TitleA, rating |-> 1,
       description |-> Text(102, 5)],
      [a |-> [UpdateAccounts(Bob, TitleA) EXCEPT
                 !.movie_review = review_address(Alice, TitleA)],
       title |-> TitleA, rating |-> 1, description |-> Text(102, 5)],
      [a |-> UpdateAccounts(Alice, TitleA), title |-> TitleA, rating |-> 0,
       description |-> Text(101, 1)],
      [a |-> UpdateAccounts(Alice, TitleA), title |-> TitleA, rating |-> 2,
       description |-> LongText],
      [a |-> UpdateAccounts(Alice, TitleB), title |-> TitleB, rating |-> 2,
       description |-> Text(101, 1)] }

\* AddComment by its commenter on the review of (Alice, TitleA): with the
\* review's counter, with a comment address one ahead, and with the review
\* account itself passed as the counter.
AddCommentInputs(S) ==
    { [a |-> CommentAccounts(S, c, review_address(Alice, TitleA),
                             counter_address(review_address(Alice, TitleA)), 0),
       comment |-> Text(99, 2)] : c \in {Alice, Bob} }
    \cup
    { [a |-> CommentAccounts(S, Bob, review_address(Alice, TitleA),
                             counter_address(review_address(Alice, TitleA)), 1),
       comment |-> Text(99, 2)],
      [a |-> CommentAccounts(S, Bob, review_address(Alice, TitleA),
                             review_address(Alice, TitleA), 0),
       comment |-> <<>>] }

InitializeMintInputs ==
    { [a |-> InitializeMintAccounts],
      [a |-> [InitializeMintAccounts EXCEPT !.token_mint = mint_auth_address]] }

\* The ledger before the reward mint exists, and the ledger with the reward mint
\* and the two wallets' token accounts for it.
InitMovie ==
    /\ pools = [k \in {} |-> 0]
    /\ account_data = [k \in {} |-> 0]
    /\ lamports = [k \in {} |-> 0]
    /\ \/ /\ mints = [k \in {} |-> 0]
          /\ tokens = [k \in {} |-> 0]
       \/ /\ mints = (token_mint_address :>
                         [supply |-> Zero, authority |-> mint_auth_address,
                          decimals |-> 9])
          /\ tokens = (get_associated_token_address(Alice, token_mint_address) :> Zero)
                      @@ (get_associated_token_address(Bob, token_mint_address) :> Zero)
    /\ last = NoInstruction
    /\ steps = 0

\* One instruction of the movie-review program.
MovieProcess(op, input, R) ==
    /\ LET S == Execute(MovieLedger(account_data, tokens, mints), R)
       IN  /\ account_data' = S.account_data
           /\ tokens' = S.tokens
           /\ mints' = S.mints
    /\ pools' = pools
    /\ lamports' = lamports
    /\ last' = [op |-> op, input |-> input, result |-> R.result, cpis |-> R.cpis,
                calc |-> R.calc, before |-> NothingProvided]
    /\ steps' = steps + 1

AddMovieReview ==
    /\ steps < MaxMovieSteps
    /\ \E i \in AddMovieReviewInputs :
           MovieProcess("AddMovieReview", i,
                        process_add_movie_review(MovieLedger(account_data, tokens, mints),
                                                 i.a, i.title, i.rating, i.description))

UpdateMovieReview ==
    /\ steps < MaxMovieSteps
    /\ \E i \in UpdateMovieReviewInputs :
           MovieProcess("UpdateMovieReview", i,
                        process_update_movie_review(
                            MovieLedger(account_data, tokens, mints),
                            i.a, i.title, i.rating, i.description))

AddComment ==
    /\ steps < MaxMovieSteps
    /\ \E i \in AddCommentInputs(MovieLedger(account_data, tokens, mints)) :
           MovieProcess("AddComment", i,
                        process_add_comment(MovieLedger(account_data, tokens, mints),
                                            i.a, i.comment))

InitializeMint ==
    /\ steps < MaxMovieSteps
    /\ \E i \in InitializeMintInputs :
           MovieProcess("InitializeMint", i,
                        initialize_token_mint(MovieLedger(account_data, tokens, mints),
                                              i.a))

NextMovie == AddMovieReview \/ UpdateMovieReview \/ AddComment \/ InitializeMint

SpecMovie == InitMovie /\ [][NextMovie]_vars

---------------------------------------------------------------------------
(* The swap-pool program: one pool account holding a list of assets (mints) *)
(* and a bump, its data as bytes, and the lamports that pay its rent.       *)

\* Pubkey::find_program_address(&[LiquidityPool::SEED_PREFIX.as_bytes()], program_id)
pool_pda == [key |-> <<"liquidity_pool">>, bump |-> 254]

\* LiquidityPool::SPACE: 4 (empty vector) + 1 (bump)
POOL_SPACE == 4 + 1

\* rent.minimum_balance(size): 128 bytes of overhead and the data, at 3480
\* lamports per byte and year, for two years
minimum_balance(size) == (128 + size) * 3480 * 2

\* The 32 bytes of a mint's address.
MintBytes(k) == PadTo(<<3, IF k = MintKey("X") THEN 1 ELSE 2>>, PubkeyBytes)

\* The mints the instructions are tried with, which a stored Pubkey can be.
Assets == {MintKey("X"), MintKey("Y")}

RECURSIVE SerializeAssets(_)
\* Vec<Pubkey>: BorshSerialize, after the length
SerializeAssets(assets) ==
    IF assets = <<>> THEN <<>>
    ELSE MintBytes(Head(assets)) \o SerializeAssets(Tail(assets))

\* LiquidityPool: BorshSerialize
serialize_pool(p) == U32LE(Len(p.assets)) \o SerializeAssets(p.assets) \o <<p.bump>>

RECURSIVE ReadAssets(_, _, _)
\* Vec<Pubkey>: BorshDeserialize, n elements of 32 bytes from `from`
ReadAssets(data, from, n) ==
    IF ~from.ok THEN ReadFail
    ELSE IF n = 0 THEN [ok |-> TRUE, v |-> <<>>, next |-> from.next]
    ELSE LET k == ReadBytes(data, from, PubkeyBytes)
             rest == ReadAssets(data, k, n - 1)
         IN  IF ~k.ok \/ ~rest.ok THEN ReadFail
             ELSE [ok |-> TRUE, v |-> <<k.v>> \o rest.v, next |-> rest.next]

\* the key the 32 bytes are: a mint, or the bytes themselves
AssetOf(bytes) ==
    IF \E m \in Assets : MintBytes(m) = bytes
    THEN CHOOSE m \in Assets : MintBytes(m) = bytes
    ELSE <<"raw", bytes>>

\* try_from_slice_unchecked::<LiquidityPool>(&pool.data.borrow()): the length of
\* the vector, its elements, the bump; bytes after them are not looked at
deserialize_pool(data) ==
    LET len == ReadBytes(data, ReadStart, 4)
        n == len.v[1] + len.v[2] * Base
        keys == ReadAssets(data, len, n)
        bump == ReadU8(data, keys)
    IN  IF ~len.ok \/ len.v[3] # 0 \/ len.v[4] # 0 THEN [ok |-> FALSE]
        ELSE IF ~keys.ok \/ ~bump.ok THEN [ok |-> FALSE]
        ELSE [ok |-> TRUE,
              v |-> [assets |-> [j \in 1..n |-> AssetOf(keys.v[j])], bump |-> bump.v]]

\* The accounts of the swap-pool program with their lamports, the token
\* accounts and the mints.
SwapLedger(d, l, t, m) == [account_data |-> d, lamports |-> l, tokens |-> t, mints |-> m]

\* account.lamports()
Lamports(S, key) == IF key \in DOMAIN S.lamports THEN S.lamports[key] ELSE 0

\* system_instruction::transfer: the sender signs and holds the lamports
system_transfer(S, from, signers, to, amount) ==
    IF from \notin signers THEN CpiErr(S, "MissingRequiredSignature")
    ELSE IF Lamports(S, from) < amount THEN CpiErr(S, "System:ResultWithNegativeLamports")
    ELSE CpiOk([S EXCEPT !.lamports =
             [k \in DOMAIN S.lamports \cup {to} |->
                 IF k = from THEN Lamports(S, k) - amount
                 ELSE IF k = to THEN Lamports(S, k) + amount
                 ELSE Lamports(S, k)]])

\* system_instruction::create_account(payer, pool, pool_rent, SPACE, program_id),
\* the pool signing by its seeds: the address must hold neither lamports nor
\* data, the payer signs and pays; the data is `space` zero bytes
create_pool_account_with_rent(S, payer, signers, key, rent, space) ==
    IF payer \notin signers \/ key \notin signers
    THEN CpiErr(S, "MissingRequiredSignature")
    ELSE IF key \in DOMAIN S.account_data \/ Lamports(S, key) > 0
    THEN CpiErr(S, "System:AccountAlreadyInUse")
    ELSE IF Lamports(S, payer) < rent THEN CpiErr(S, "System:ResultWithNegativeLamports")
    ELSE LET paid == system_transfer(S, payer, signers, key, rent)
         IN  CpiOk([paid.S EXCEPT !.account_data = S.account_data @@ (key :> Zeros(space))])

\* The signers of the transaction, and of a CPI signed with the pool's seeds.
PayerSigns(a) == IF a.payer_is_signer THEN {a.payer} ELSE {}

\* process_create_pool of the swap-pool program
swap_pool_process_create_pool(S, a) ==
    LET r1 == create_pool_account_with_rent(S, a.payer, PayerSigns(a) \cup {pool_pda.key},
                                            a.pool, minimum_balance(POOL_SPACE),
                                            POOL_SPACE)
        pd == deserialize_pool(AccountData(r1.S, a.pool))
        w  == write_data(AccountData(r1.S, a.pool),
                         serialize_pool([assets |-> <<>>, bump |-> pool_pda.bump]))
    IN  IF a.pool # pool_pda.key THEN Res("InvalidSeeds", S, 0, NoCalc)
        ELSE IF ~r1.ok THEN CpiFailed(<<r1>>, S, NoCalc)
        ELSE IF ~pd.ok \/ ~w.ok THEN Res("BorshIoError", r1.S, 1, NoCalc)
        ELSE Res("Ok", [r1.S EXCEPT !.account_data[a.pool] = w.data], 1, NoCalc)

\* pool.resize(new_account_size): the data grows by zero bytes
resize(data, new_account_size) == data \o Zeros(new_account_size - Len(data))

\* lamports_required - pool.lamports(), on u64: an account that holds more than
\* is required makes it a panic with overflow-checks and a number near 2^64
\* without, which no payer holds
additional_rent_to_fund(lamports_required, held, overflow_checks) ==
    IF held <= lamports_required
    THEN [err |-> "Ok", v |-> lamports_required - held]
    ELSE IF overflow_checks THEN [err |-> "Panic", v |-> 0]
    ELSE [err |-> "System:ResultWithNegativeLamports", v |-> 0]

\* Vec::contains on the list read from the account
contains(assets, mint) == \E j \in 1..Len(assets) : assets[j] = mint

\* process_fund_pool: the list read from the account gets the mint pushed in
\* memory; the handler returns without serializing it
process_fund_pool(S, a, amount, env) ==
    LET signers == PayerSigns(a)
        r1 == IF ~a.payer_is_signer THEN CpiErr(S, "MissingRequiredSignature")
              ELSE create_associated_token_account_idempotent(S, a.pool_ata, a.pool, a.mint)
        pd == deserialize_pool(AccountData(r1.S, a.pool))
        grows == ~contains(pd.v.assets, a.mint)
        new_account_size == Len(AccountData(r1.S, a.pool)) + 32
        fund == additional_rent_to_fund(minimum_balance(new_account_size),
                                        Lamports(r1.S, a.pool), env.overflow_checks)
        r2 == system_transfer(r1.S, a.payer, signers, a.pool, fund.v)
        S2 == IF ~grows THEN r1.S
              ELSE [r2.S EXCEPT !.account_data[a.pool] = resize(@, new_account_size)]
        n2 == IF grows THEN 2 ELSE 1
        r3 == transfer_checked(S2, a.payer_ata, a.mint, a.pool_ata, a.payer, signers,
                               amount)
        calc == [computed |-> TRUE, grows |-> grows,
                 assets |-> IF grows THEN Append(pd.v.assets, a.mint) ELSE pd.v.assets]
    IN  IF a.pool # pool_pda.key THEN Res("InvalidSeeds", S, 0, NoCalc)
        ELSE IF a.pool_ata # get_associated_token_address(a.pool, a.mint)
        THEN Res("InvalidSeeds", S, 0, NoCalc)
        ELSE IF a.payer_ata # get_associated_token_address(a.payer, a.mint)
        THEN Res("InvalidSeeds", S, 0, NoCalc)
        ELSE IF ~r1.ok THEN CpiFailed(<<r1>>, S, NoCalc)
        ELSE IF ~pd.ok THEN Res("BorshIoError", r1.S, 1, NoCalc)
        ELSE IF grows /\ fund.err # "Ok" THEN Res(fund.err, r1.S, 1, calc)
        ELSE IF grows /\ ~r2.ok THEN Res(r2.err, r1.S, 1, calc)
        ELSE IF ~r3.ok THEN Res(r3.err, S2, n2, calc)
        ELSE Res("Ok", r3.S, n2 + 1, calc)

\* A swap that takes the payment: the caller's amount_to_swap of the pay mint
\* goes to the pool.
swap_pool_process_swap_paying(S, a, amount_to_swap) ==
    LET r == transfer_checked(S, a.payer_pay_ata, a.pay_mint, a.pool_pay_ata, a.payer,
                              PayerSigns(a), amount_to_swap)
    IN  IF r.ok THEN Res("Ok", r.S, 1, NoCalc) ELSE Res("InvalidSeeds", S, 0, NoCalc)

\* process_swap of the swap-pool program: the checks, and Ok
swap_pool_process_swap(S, a, amount_to_swap) ==
    IF a.pool_receive_ata # get_associated_token_address(a.pool, a.receive_mint)
    THEN Res("InvalidSeeds", S, 0, NoCalc)
    ELSE IF a.payer_receive_ata # get_associated_token_address(a.payer, a.receive_mint)
    THEN Res("InvalidSeeds", S, 0, NoCalc)
    ELSE IF a.pool_pay_ata # get_associated_token_address(a.pool, a.pay_mint)
    THEN Res("InvalidSeeds", S, 0, NoCalc)
    ELSE IF a.payer_pay_ata # get_associated_token_address(a.payer, a.pay_mint)
    THEN Res("InvalidSeeds", S, 0, NoCalc)
    ELSE IF amount_to_swap = Zero THEN Res("InvalidSwapZeroAmount", S, 0, NoCalc)
    ELSE IF a.receive_mint = a.pay_mint THEN Res("InvalidSwapMatchingAssets", S, 0, NoCalc)
    ELSE Res("Ok", S, 0, NoCalc)

---------------------------------------------------------------------------
(* The swap-pool program's state machine *)

MaxPoolSteps == 4

\* What the payer holds: the rent of the pool account and of two more assets.
PayerLamports == 1400000

CreateSwapPoolAccounts == [pool |-> pool_pda.key, payer |-> User, payer_is_signer |-> TRUE]

FundAccounts(mint) ==
    [pool |-> pool_pda.key, mint |-> mint,
     pool_ata |-> get_associated_token_address(pool_pda.key, mint),
     payer_ata |-> get_associated_token_address(User, mint),
     payer |-> User, payer_is_signer |-> TRUE]

WrongFundAccounts(acc) ==
    { [acc EXCEPT !.pool = <<"liquidity_pool", "other">>],
      [acc EXCEPT !.pool_ata = acc.payer_ata],
      [acc EXCEPT !.payer_ata = acc.pool_ata],
      [acc EXCEPT !.payer_is_signer = FALSE] }

SwapPoolAccounts(pool, receive_mint, pay_mint) ==
    [pool |-> pool, receive_mint |-> receive_mint,
     pool_receive_ata |-> get_associated_token_address(pool, receive_mint),
     payer_receive_ata |-> get_associated_token_address(User, receive_mint),
     pay_mint |-> pay_mint,
     pool_pay_ata |-> get_associated_token_address(pool, pay_mint),
     payer_pay_ata |-> get_associated_token_address(User, pay_mint),
     payer |-> User, payer_is_signer |-> TRUE]

WrongSwapPoolAccounts(acc) ==
    { [acc EXCEPT !.pool_receive_ata = acc.payer_receive_ata],
      [acc EXCEPT !.payer_receive_ata = acc.pool_receive_ata],
      [acc EXCEPT !.pool_pay_ata = acc.pool_receive_ata],
      [acc EXCEPT !.payer_pay_ata = acc.payer_receive_ata] }

CreateSwapPoolInputs ==
    { CreateSwapPoolAccounts,
      [CreateSwapPoolAccounts EXCEPT !.pool = <<"liquidity_pool", "other">>],
      [CreateSwapPoolAccounts EXCEPT !.payer_is_signer = FALSE] }

FundPoolInputs ==
    [a : {FundAccounts(m) : m \in Assets}, amount : {Zero, One, FromInt(2)}]
    \cup [a : WrongFundAccounts(FundAccounts(MintX)), amount : {One}]

SwapAssetsInputs ==
    [a : {SwapPoolAccounts(pool_pda.key, r, p) : r \in Assets, p \in Assets},
     amount_to_swap : {Zero, One}]
    \cup [a : WrongSwapPoolAccounts(SwapPoolAccounts(pool_pda.key, MintX, MintY))
              \cup WrongSwapPoolAccounts(SwapPoolAccounts(pool_pda.key, MintX, MintX))
              \cup {SwapPoolAccounts(<<"liquidity_pool", "other">>, MintX, MintY),
                    [SwapPoolAccounts(pool_pda.key, MintX, MintY)
                        EXCEPT !.payer_is_signer = FALSE]},
          amount_to_swap : {Zero, One}]

InitSwapPool ==
    /\ pools = [k \in {} |-> 0]
    /\ account_data = [k \in {} |-> 0]
    /\ lamports = (User :> PayerLamports)
    /\ tokens = (get_associated_token_address(User, MintX) :> FromInt(InitialBalance))
                @@ (get_associated_token_address(User, MintY) :> FromInt(InitialBalance))
    /\ mints = (MintX :> [supply |-> FromInt(InitialBalance), authority |-> Wallet("issuer")])
               @@ (MintY :> [supply |-> FromInt(InitialBalance),
                             authority |-> Wallet("issuer")])
    /\ last = NoInstruction
    /\ steps = 0

\* One instruction of the swap-pool program.
SwapPoolProcess(op, input, R) ==
    /\ LET S == Execute(SwapLedger(account_data, lamports, tokens, mints), R)
       IN  /\ account_data' = S.account_data
           /\ lamports' = S.lamports
           /\ tokens' = S.tokens
           /\ mints' = S.mints
    /\ pools' = pools
    /\ last' = [op |-> op, input |-> input, result |-> R.result, cpis |-> R.cpis,
                calc |-> R.calc, before |-> NothingProvided]
    /\ steps' = steps + 1

CreateSwapPool ==
    /\ steps < MaxPoolSteps
    /\ \E a \in CreateSwapPoolInputs :
           SwapPoolProcess("CreatePool", [a |-> a],
                           swap_pool_process_create_pool(
                               SwapLedger(account_data, lamports, tokens, mints), a))

FundPool ==
    /\ steps < MaxPoolSteps
    /\ \E i \in FundPoolInputs, oc \in Builds :
           SwapPoolProcess("FundPool", i,
                           process_fund_pool(
                               SwapLedger(account_data, lamports, tokens, mints),
                               i.a, i.amount, Env(oc, FALSE)))

SwapAssets ==
    /\ steps < MaxPoolSteps
    /\ \E i \in SwapAssetsInputs :
           SwapPoolProcess("Swap", i,
                           swap_pool_process_swap(
                               SwapLedger(account_data, lamports, tokens, mints),
                               i.a, i.amount_to_swap))

NextSwapPool == CreateSwapPool \/ FundPool \/ SwapAssets

SpecSwapPool == InitSwapPool /\ [][NextSwapPool]_vars

---------------------------------------------------------------------------
(* Properties of the AMM.  `last` is the instruction that led to the state;    *)
(* in a step, the unprimed ledger is the one the instruction ran on.           *)

LedgerUnchanged == pools' = pools /\ tokens' = tokens /\ mints' = mints

SortedMints(m1, m2) == IF KeyLt(m1, m2) THEN <<m1, m2>> ELSE <<m2, m1>>

\* The balance of a token account, zero when there is none.
Balance(t, k) == IF k \in DOMAIN t THEN t[k] ELSE Zero

\* The supply of a mint, zero when there is none.
Supply(m, k) == IF k \in DOMAIN m THEN m[k].supply ELSE Zero

\* C1: in every reachable state, each pool record's reserve_a is the balance of
\* the pool's vault for mint_a and its reserve_b the balance of the vault for
\* mint_b.
ReservesEqualVaults ==
    \A k \in DOMAIN pools :
        /\ pools[k].reserve_a
               = Balance(tokens, get_associated_token_address(k, pools[k].mint_a))
        /\ pools[k].reserve_b
               = Balance(tokens, get_associated_token_address(k, pools[k].mint_b))

\* The instruction of this step is rejected with error e and changes nothing.
Rejected(e) == last'.result = e /\ LedgerUnchanged

\* For an instruction whose pool, vault or LP-mint account differs from the derived
\* one: the matching error, the pool first, then the vaults, then the LP mint.
Binding(pool_differs, vault_differs, lp_differs) ==
    /\ pool_differs => Rejected("PoolAddressMismatch")
    /\ ~pool_differs /\ vault_differs => Rejected("VaultAddressMismatch")
    /\ ~pool_differs /\ ~vault_differs /\ lp_differs => Rejected("LpMintAddressMismatch")

\* The address the seeds of the record in account `pool` derive, with the mints
\* m1, m2: as the handlers of the three instructions on an existing pool derive it.
DerivedFromRecord(pool, m1, m2, on_curve) ==
    LET pd == pool_data_of(Ledger(pools, tokens, mints), pool)
        m  == SortedMints(m1, m2)
    IN  IF pd.ok
        THEN create_program_address(m[1], m[2], pd.v.fee_bps, pd.v.bump, on_curve)
        ELSE [ok |-> FALSE, key |-> <<"none">>]

AddressBindingOfCreatePool(i) ==
    LET a == i.a
        m == SortedMints(a.mint_a, a.mint_b)
    IN  a.user_is_signer /\ a.mint_a # a.mint_b
        => Binding(a.pool # find_program_address(m[1], m[2], i.fee_bps).key,
                   \/ a.vault_a # get_associated_token_address(a.pool, a.mint_a)
                   \/ a.vault_b # get_associated_token_address(a.pool, a.mint_b),
                   a.mint_lp # lp_mint_address(a.pool))

\* ProvideLiquidity and WithdrawLiquidity: the seeds are the mints of the record.
AddressBindingOfLiquidity(i, amount) ==
    LET a  == i.a
        pd == pool_data_of(Ledger(pools, tokens, mints), a.pool)
        e  == DerivedFromRecord(a.pool, pd.v.mint_a, pd.v.mint_b, i.on_curve)
    IN  a.user_is_signer /\ amount # Zero /\ pd.ok /\ e.ok
        /\ (e.key = a.pool => a.mint_a = pd.v.mint_a /\ a.mint_b = pd.v.mint_b)
        => Binding(e.key # a.pool,
                   \/ a.vault_a # get_associated_token_address(a.pool, a.mint_a)
                   \/ a.vault_b # get_associated_token_address(a.pool, a.mint_b),
                   a.mint_lp # lp_mint_address(a.pool))

\* Swap: the seeds are the two mints passed; there is no LP-mint account.
AddressBindingOfSwap(i) ==
    LET a == i.a
        e == DerivedFromRecord(a.pool, a.mint_in, a.mint_out, i.on_curve)
    IN  a.user_is_signer /\ i.amount_in # Zero /\ e.ok
        => Binding(e.key # a.pool,
                   \/ a.vault_in # get_associated_token_address(a.pool, a.mint_in)
                   \/ a.vault_out # get_associated_token_address(a.pool, a.mint_out),
                   FALSE)

AddressBindingStep ==
    CASE last'.op = "CreatePool" -> AddressBindingOfCreatePool(last'.input)
      [] last'.op = "ProvideLiquidity" ->
             AddressBindingOfLiquidity(last'.input, One)
      [] last'.op = "WithdrawLiquidity" ->
             AddressBindingOfLiquidity(last'.input, last'.input.amount_lp_in)
      [] last'.op = "Swap" -> AddressBindingOfSwap(last'.input)
      [] OTHER -> TRUE

\* C3: each of the four instructions, given a pool, vault or LP-mint account that
\* is not the derived address, fails with PoolAddressMismatch,
\* VaultAddressMismatch or LpMintAddressMismatch respectively and changes no
\* reserve, token balance or LP supply.  (Read for an instruction that passes
\* the checks its handler makes before these.)
AddressBinding == [][AddressBindingStep]_vars

\* C4: a CreatePool(amount_a, amount_b, fee_bps) that succeeds mints to the caller
\* exactly floor(sqrt(amount_a * amount_b)) LP tokens, the whole LP supply, and
\* stores reserve_a = amount_a, reserve_b = amount_b and the fee_bps of the call.
CreatePoolMintsGeometricMean ==
    last.op = "CreatePool" /\ last.result = "Ok"
    => LET i    == last.input
           lp   == Balance(tokens, i.a.user_ata_lp)
           prod == Mul(i.amount_a, i.amount_b)
       IN  /\ Le(Mul(lp, lp), prod)
           /\ Lt(prod, Mul(Add(lp, One), Add(lp, One)))
           /\ Supply(mints, i.a.mint_lp) = lp
           /\ i.a.pool \in DOMAIN pools
           /\ pools[i.a.pool].reserve_a = i.amount_a
           /\ pools[i.a.pool].reserve_b = i.amount_b
           /\ pools[i.a.pool].fee_bps = i.fee_bps

\* A pool was created whose LP amount is not the root of a square: 1 of X and
\* 2^63 of Y, for 3037000499 LP tokens.
CreatedPoolWithFlooredRoot ==
    /\ last.op = "CreatePool" /\ last.result = "Ok"
    /\ last.input.amount_a = One /\ last.input.amount_b = Half64
    /\ Balance(tokens, last.input.a.user_ata_lp) = <<51, 243, 4, 181>>

\* The amounts a handler computed fall short of the minimums of the call.
BelowMinimum(l) ==
    CASE l.op = "ProvideLiquidity" ->
             \/ Lt(l.calc.take_a, l.input.amount_a_min)
             \/ Lt(l.calc.take_b, l.input.amount_b_min)
      [] l.op = "WithdrawLiquidity" ->
             \/ Lt(l.calc.a_out, l.input.amount_a_min)
             \/ Lt(l.calc.b_out, l.input.amount_b_min)
      [] l.op = "Swap" -> Lt(l.calc.amount_out, l.input.min_out)
      [] OTHER -> FALSE

\* C6: ProvideLiquidity with take_a < amount_a_min or take_b < amount_b_min,
\* WithdrawLiquidity with a_out < amount_a_min or b_out < amount_b_min and Swap
\* with amount_out < min_out return SlippageExceed before any transfer, mint or
\* burn, and reserves, balances and LP supply stay as they were.
SlippageGuards ==
    [][last'.calc.computed /\ BelowMinimum(last')
       => last'.result = "SlippageExceed" /\ last'.cpis = 0 /\ LedgerUnchanged]_vars

\* A Swap on an existing pool was rejected for its minimum.
SwapBelowMinimum ==
    /\ last.op = "Swap" /\ last.result = "SlippageExceed"
    /\ last.input.a.pool \in DOMAIN pools
    /\ Lt(last.calc.amount_out, last.input.min_out)

\* C7: a ProvideLiquidity(x, y) that succeeds and mints L LP tokens, followed at
\* once by a WithdrawLiquidity(L) on the same pool that succeeds, pays out
\* a_out <= x and b_out <= y.
RoundTripReturnsNoMore ==
    [][(/\ last.op = "ProvideLiquidity" /\ last.result = "Ok"
        /\ last'.op = "WithdrawLiquidity" /\ last'.result = "Ok"
        /\ last'.input.a.pool = last.input.a.pool
        /\ last'.input.amount_lp_in = last.calc.lp_amount)
       => /\ Le(Sub(tokens'[last'.input.a.user_ata_a], tokens[last'.input.a.user_ata_a]),
                last.input.amount_a_desired)
          /\ Le(Sub(tokens'[last'.input.a.user_ata_b], tokens[last'.input.a.user_ata_b]),
                last.input.amount_b_desired)]_vars

\* A withdrawal of exactly the LP tokens the instruction before it minted, paying
\* out something.
RoundTripDone ==
    /\ last.op = "WithdrawLiquidity" /\ last.result = "Ok"
    /\ last.before.provided
    /\ last.before.pool = last.input.a.pool
    /\ last.before.lp_amount = last.input.amount_lp_in
    /\ last.calc.a_out # Zero /\ last.calc.b_out # Zero

PoolRecordsValid(p) ==
    \A k \in DOMAIN p : p[k].mint_a # p[k].mint_b /\ p[k].fee_bps \in 0..BPS

\* C10: CreatePool with identical mints is rejected with IdenticalMints and
\* CreatePool with fee_bps > 10000 with FeeTooHigh (when no earlier check of the
\* handler rejects the call), no record is created, and every pool record of
\* every reachable state has mint_a # mint_b and 0 <= fee_bps <= 10000.
CreatePoolKeepsRecordsValid ==
    [][/\ (last'.op = "CreatePool" /\ last'.input.a.user_is_signer
           /\ last'.input.a.mint_a = last'.input.a.mint_b)
          => last'.result = "IdenticalMints" /\ pools' = pools
       /\ (last'.op = "CreatePool" /\ last'.input.fee_bps > BPS
           /\ create_pool_account_checks(last'.input.a, last'.input.fee_bps) = "Ok"
           /\ last'.input.amount_a # Zero /\ last'.input.amount_b # Zero)
          => last'.result = "FeeTooHigh" /\ pools' = pools
       /\ PoolRecordsValid(pools')]_vars

\* A CreatePool was rejected for its fee while a pool exists.
CreatePoolFeeRejected ==
    /\ last.op = "CreatePool" /\ last.result = "FeeTooHigh"
    /\ last.input.fee_bps = BPS + 1
    /\ DOMAIN pools # {}

\* The pool record a Swap of this step acted on, and its reserves on the side
\* of the mint coming in and of the mint going out.
SwapPool == pools[last'.input.a.pool]

SwapReserveIn ==
    IF last'.input.a.mint_in = SwapPool.mint_a THEN SwapPool.reserve_a
    ELSE SwapPool.reserve_b

SwapReserveOut ==
    IF last'.input.a.mint_in = SwapPool.mint_a THEN SwapPool.reserve_b
    ELSE SwapPool.reserve_a

\* amount_in * (10000 - fee_bps), reserve_out times that, and
\* reserve_in * 10000 plus that: the exact values, of any width.
SwapAmountInPostFee == Mul(last'.input.amount_in, FromInt(BPS - SwapPool.fee_bps))

SwapNumerator == Mul(SwapReserveOut, SwapAmountInPostFee)

SwapDenominator == Add(Mul(SwapReserveIn, FromInt(BPS)), SwapAmountInPostFee)

\* What the caller's account for the mint going out received in this step.
SwapReceived ==
    Sub(tokens'[last'.input.a.user_ata_out], tokens[last'.input.a.user_ata_out])

\* This step is a Swap that succeeds.
SwapSucceeds == last'.op = "Swap" /\ last'.result = "Ok"

\* C2: a Swap that succeeds with amount_in > 0 leaves a product of the stored
\* reserves that is at least the product before it.
ProductNeverDecreases ==
    [][SwapSucceeds /\ last'.input.amount_in # Zero
       => Le(Mul(SwapPool.reserve_a, SwapPool.reserve_b),
             Mul(pools'[last'.input.a.pool].reserve_a,
                 pools'[last'.input.a.pool].reserve_b))]_vars

\* The exact amounts of a ProvideLiquidity or WithdrawLiquidity of this step on
\* pool record p with LP supply t.
ExactLpAmount(p, t, take_a, take_b) ==
    Min(Div(Mul(take_a, t), p.reserve_a), Div(Mul(take_b, t), p.reserve_b))

ArithmeticIsExactStep ==
    LET i  == last'.input
        p  == pools[i.a.pool]
        p2 == pools'[i.a.pool]
        t  == Supply(mints, i.a.mint_lp)
        t2 == Supply(mints', i.a.mint_lp)
    IN  /\ last'.op = "ProvideLiquidity" /\ last'.result = "Ok"
           => /\ Le(p.reserve_a, p2.reserve_a) /\ Le(p.reserve_b, p2.reserve_b)
              /\ Le(t, t2)
              /\ Sub(t2, t) = ExactLpAmount(p, t, Sub(p2.reserve_a, p.reserve_a),
                                            Sub(p2.reserve_b, p.reserve_b))
        /\ last'.op = "WithdrawLiquidity" /\ last'.result = "Ok"
           => /\ Le(p2.reserve_a, p.reserve_a) /\ Le(p2.reserve_b, p.reserve_b)
              /\ Sub(p.reserve_a, p2.reserve_a) = Div(Mul(i.amount_lp_in, p.reserve_a), t)
              /\ Sub(p.reserve_b, p2.reserve_b) = Div(Mul(i.amount_lp_in, p.reserve_b), t)
        /\ (/\ last'.op = "Swap" /\ last'.result \in {"Ok", "Panic"}
            /\ i.a.pool \in DOMAIN pools /\ SwapDenominator # Zero)
           => /\ Fits(SwapNumerator, U128Bytes) /\ Fits(SwapDenominator, U128Bytes)
              /\ Fits(Add(SwapReserveIn, i.amount_in), U64Bytes)
              /\ last'.result = "Ok"
              /\ last'.calc.amount_out = Div(SwapNumerator, SwapDenominator)
              /\ LET new_in  == IF i.a.mint_in = p.mint_a THEN p2.reserve_a
                                ELSE p2.reserve_b
                     new_out == IF i.a.mint_in = p.mint_a THEN p2.reserve_b
                                ELSE p2.reserve_a
                 IN  /\ new_in = Add(SwapReserveIn, i.amount_in)
                     /\ Add(new_out, last'.calc.amount_out) = SwapReserveOut

\* C5: ProvideLiquidity, WithdrawLiquidity and Swap use the exact floored results
\* of their formulas or abort with ArithmeticOverflow: no product wraps at 128
\* bits, no result is cut when narrowed to 64 bits, no reserve update wraps at 64
\* bits.
ArithmeticIsExact == [][ArithmeticIsExactStep]_vars

\* C8: every Swap that succeeds pays out
\* floor(reserve_out * amount_in * (10000 - fee_bps)
\*       / (reserve_in * 10000 + amount_in * (10000 - fee_bps)))
\* on the reserves stored before it; on the pool created with (1000, 4000) and
\* fee_bps 30, whose LP supply is 2000, Swap(100 of mint_a, min_out 0) pays 362.
SwapPaysFormula ==
    [][/\ SwapSucceeds => SwapReceived = Div(SwapNumerator, SwapDenominator)
       /\ (/\ last'.op = "Swap"
           /\ last'.input.a = SwapAccounts(MintX, MintY, PoolFee)
           /\ last'.input.a.pool \in DOMAIN pools
           /\ SwapPool = [mint_a |-> MintX, mint_b |-> MintY,
                          reserve_a |-> FromInt(1000), reserve_b |-> FromInt(4000),
                          fee_bps |-> PoolFee, bump |-> 255]
           /\ Supply(mints, lp_mint_address(last'.input.a.pool)) = FromInt(2000)
           /\ last'.input.amount_in = FromInt(100) /\ last'.input.min_out = Zero)
          => last'.result = "Ok" /\ SwapReceived = FromInt(362)]_vars

\* Two pool records are of the same unordered mint pair and fee tier.
SamePairAndFee(p1, p2) ==
    {p1.mint_a, p1.mint_b} = {p2.mint_a, p2.mint_b} /\ p1.fee_bps = p2.fee_bps

\* The address CreatePool derives for the mints and fee of input i.
CreatePoolTarget(i) ==
    find_program_address(SortedMints(i.a.mint_a, i.a.mint_b)[1],
                         SortedMints(i.a.mint_a, i.a.mint_b)[2], i.fee_bps).key

\* C11: there is at most one pool record per unordered mint pair and fee tier:
\* CreatePool derives the same address for (X, Y, fee) and (Y, X, fee), a
\* CreatePool that succeeds creates the record at that address, and a CreatePool
\* on an address that holds a record fails and leaves the record as it was.
OnePoolPerPairAndFee ==
    [][/\ last'.op = "CreatePool"
          => /\ CreatePoolTarget(last'.input)
                    = CreatePoolTarget([last'.input EXCEPT
                                           !.a.mint_a = last'.input.a.mint_b,
                                           !.a.mint_b = last'.input.a.mint_a])
             /\ last'.result = "Ok"
                    => /\ last'.input.a.pool = CreatePoolTarget(last'.input)
                       /\ last'.input.a.pool \notin DOMAIN pools
                       /\ DOMAIN pools' = DOMAIN pools \cup {last'.input.a.pool}
             /\ last'.input.a.pool \in DOMAIN pools
                    => last'.result # "Ok" /\ pools' = pools
       /\ \A k1, k2 \in DOMAIN pools' :
              SamePairAndFee(pools'[k1], pools'[k2]) => k1 = k2]_vars

\* A CreatePool with the mints in the other order met the record of the pair.
CreatePoolMetExistingRecord ==
    /\ last.op = "CreatePool" /\ last.result = "System:AccountAlreadyInUse"
    /\ last.input.a.pool \in DOMAIN pools
    /\ last.input.a.mint_a = pools[last.input.a.pool].mint_b
    /\ last.input.a.mint_b = pools[last.input.a.pool].mint_a

---------------------------------------------------------------------------
(* Properties of the instruction data *)

\* The number a sequence of bytes is, little-endian.
RECURSIVE LittleEndian(_)
LittleEndian(bytes) ==
    IF bytes = <<>> THEN 0 ELSE Head(bytes) + Base * LittleEndian(Tail(bytes))

\* The k-th u64 of the payload of data, k from 0.
PayloadU64(data, k) ==
    FromInt(LittleEndian(SubSeq(data, 2 + 8 * k, 9 + 8 * k)))

\* The layout of each opcode: its instruction and the bytes of its payload.
OpcodeLayout(opcode) ==
    CASE opcode = 0 -> [name |-> "CreatePool", size |-> 8 + 8 + 2]
      [] opcode = 1 -> [name |-> "ProvideLiquidity", size |-> 4 * 8]
      [] opcode = 2 -> [name |-> "WithdrawLiquidity", size |-> 3 * 8]
      [] opcode = 3 -> [name |-> "Swap", size |-> 2 * 8]

WellFormed(data) ==
    /\ data # <<>>
    /\ Head(data) \in 0..3
    /\ Len(data) - 1 = OpcodeLayout(Head(data)).size

DecodedFieldsStep ==
    LET data == last'.input.data
        i == last'.input
    IN  /\ last'.op = OpcodeLayout(Head(data)).name
        /\ last'.op = "CreatePool"
              => /\ i.amount_a = PayloadU64(data, 0) /\ i.amount_b = PayloadU64(data, 1)
                 /\ i.fee_bps = LittleEndian(SubSeq(data, 18, 19))
                 /\ last'.result = "Ok"
                       => pools'[i.a.pool]
                              = [mint_a |-> i.a.mint_a, mint_b |-> i.a.mint_b,
                                 reserve_a |-> PayloadU64(data, 0),
                                 reserve_b |-> PayloadU64(data, 1),
                                 fee_bps |-> LittleEndian(SubSeq(data, 18, 19)),
                                 bump |-> 255]
        /\ last'.op = "ProvideLiquidity"
              => /\ i.amount_a_desired = PayloadU64(data, 0)
                 /\ i.amount_b_desired = PayloadU64(data, 1)
                 /\ i.amount_a_min = PayloadU64(data, 2)
                 /\ i.amount_b_min = PayloadU64(data, 3)
        /\ last'.op = "WithdrawLiquidity"
              => /\ i.amount_lp_in = PayloadU64(data, 0)
                 /\ i.amount_a_min = PayloadU64(data, 1)
                 /\ i.amount_b_min = PayloadU64(data, 2)
                 /\ last'.result = "Ok"
                       => Sub(Supply(mints, i.a.mint_lp), Supply(mints', i.a.mint_lp))
                              = PayloadU64(data, 0)
        /\ last'.op = "Swap"
              => /\ i.amount_in = PayloadU64(data, 0) /\ i.min_out = PayloadU64(data, 1)
                 /\ last'.result = "Ok"
                       => Sub(tokens[i.a.user_ata_in], tokens'[i.a.user_ata_in])
                              = PayloadU64(data, 0)

\* C12: instruction data that is empty, starts with a byte outside 0..3 or has
\* a payload of another length than the opcode's layout (18, 32, 24, 16 bytes)
\* is rejected with InvalidInstructionData and no handler runs; any other data
\* runs the handler of its opcode on the fields decoded little-endian in the
\* order of the payload.
UnpackDecodesOrRejects ==
    [][IF WellFormed(last'.input.data) THEN DecodedFieldsStep
       ELSE /\ last'.op = "none" /\ last'.result = "InvalidInstructionData"
            /\ last'.cpis = 0 /\ LedgerUnchanged]_vars

\* Data of opcode 1 with the payload of three u64 was rejected on a ledger with a
\* pool.
ProvideWithShortPayloadRejected ==
    /\ last.op = "none" /\ last.result = "InvalidInstructionData"
    /\ Len(last.input.data) = 1 + 3 * 8 /\ Head(last.input.data) = 1
    /\ DOMAIN pools # {}

---------------------------------------------------------------------------
(* Properties of the movie-review program *)

\* The layout of the records in an account's data: a String is its length in
\* four bytes and its bytes, a bool one byte, a Pubkey 32 bytes, a u64 eight.
StringBytes(str) == <<Len(str) % 256, Len(str) \div 256, 0, 0>> \o str

U64Field(v) == v \o [k \in 1..(8 - Len(v)) |-> 0]

CommentBytes(review, commenter, comment, count) ==
    StringBytes(CommentDiscriminator) \o <<1>> \o KeyBytes(review)
    \o KeyBytes(commenter) \o StringBytes(comment) \o U64Field(count)

\* The u64 after the discriminator and the flag of a counter record.
StoredCounter(data) == Norm(SubSeq(data, 4 + data[1] + 2, 4 + data[1] + 9))

\* 5 * 10^9 and 10 * 10^9 base units: 5 and 10 tokens of a mint of 9 decimals
FiveTokens == Mul(FromInt(5), FromInt(1000000000))

TenTokens == Mul(FromInt(10), FromInt(1000000000))

\* This step is an AddComment that succeeds.
AddCommentSucceeds == last'.op = "AddComment" /\ last'.result = "Ok"

\* The counter records: the accounts at the counter address of a review.
CounterAccounts(d) == {k \in DOMAIN d : k[1] = "counter"}

\* C13: an AddComment that succeeds creates the comment account with the review,
\* commenter and comment passed and with the count the counter held before,
\* adds 1 to the counter and mints 5 * 10^9 base units of the 9-decimal reward
\* mint to the commenter's token account; a counter starts at 0 in
\* AddMovieReview and no other step changes it, so that it counts the
\* AddComments on it.
AddCommentCounts ==
    [][/\ AddCommentSucceeds
          => LET a == last'.input.a
             IN  /\ a.comment_account \notin DOMAIN account_data
                 /\ a.comment_account \in DOMAIN account_data'
                 /\ account_data'[a.comment_account]
                        = CommentBytes(a.movie_review, a.commenter, last'.input.comment,
                                       StoredCounter(account_data[a.counter]))
                 /\ StoredCounter(account_data'[a.counter])
                        = Add(StoredCounter(account_data[a.counter]), One)
                 /\ a.user_ata = get_associated_token_address(a.commenter,
                                                              token_mint_address)
                 /\ tokens'[a.user_ata] = Add(tokens[a.user_ata], FiveTokens)
                 /\ mints'[token_mint_address].supply
                        = Add(mints[token_mint_address].supply, FiveTokens)
                 /\ mints[token_mint_address].decimals = 9
       /\ \A k \in CounterAccounts(account_data') :
              IF k \notin DOMAIN account_data
              THEN /\ last'.op = "AddMovieReview" /\ last'.input.a.counter = k
                   /\ StoredCounter(account_data'[k]) = Zero
              ELSE StoredCounter(account_data'[k])
                       = IF AddCommentSucceeds /\ last'.input.a.counter = k
                         THEN Add(StoredCounter(account_data[k]), One)
                         ELSE StoredCounter(account_data[k])]_vars

\* After AddMovieReview and three AddComments on its counter, the counter is 3.
ThreeCommentsCounted ==
    /\ last.op = "AddComment" /\ last.result = "Ok" /\ steps = 4
    /\ last.input.a.counter = counter_address(review_address(Alice, TitleA))
    /\ StoredCounter(account_data[last.input.a.counter]) = FromInt(3)
    /\ \A n \in 0..2 :
           comment_address(review_address(Alice, TitleA), FromInt(n))
               \in DOMAIN account_data

ReviewBytes(reviewer, rating, title, description) ==
    StringBytes(ReviewDiscriminator) \o <<1>> \o KeyBytes(reviewer) \o <<rating>>
    \o StringBytes(title) \o StringBytes(description)

CounterBytes(count) == StringBytes(CounterDiscriminator) \o <<1>> \o U64Field(count)

\* The first n bytes of the data.
Prefix(data, n) == SubSeq(data, 1, n)

\* C14: an AddMovieReview(title, rating, description) that succeeds, signed by
\* reviewer R, leaves at the review address an account of MAX_SPACE = 1000
\* bytes that starts with the record ("review", true, R, rating, title,
\* description), at the counter address the record ("counter", true, 0), and
\* R's token account for the 9-decimal reward mint credited with 10 * 10^9
\* base units.
AddMovieReviewCreatesRecords ==
    [][last'.op = "AddMovieReview" /\ last'.result = "Ok"
       => LET i == last'.input
              a == last'.input.a
              review == ReviewBytes(a.reviewer, i.rating, i.title, i.description)
          IN  /\ a.reviewer_is_signer
              /\ a.movie_review \notin DOMAIN account_data
              /\ Len(account_data'[a.movie_review]) = 1000
              /\ Prefix(account_data'[a.movie_review], Len(review)) = review
              /\ a.counter \notin DOMAIN account_data
              /\ account_data'[a.counter] = CounterBytes(Zero)
              /\ a.user_ata = get_associated_token_address(a.reviewer,
                                                           token_mint_address)
              /\ tokens'[a.user_ata] = Add(tokens[a.user_ata], TenTokens)
              /\ mints[token_mint_address].decimals = 9]_vars

\* An AddMovieReview succeeded.
ReviewAdded ==
    /\ last.op = "AddMovieReview" /\ last.result = "Ok"
    /\ last.input.a.movie_review \in DOMAIN account_data
    /\ last.input.a.counter \in DOMAIN account_data

\* The account that signs the instruction of this step.
StepSigner ==
    CASE last'.op \in {"AddMovieReview", "UpdateMovieReview"} ->
             IF last'.input.a.reviewer_is_signer THEN last'.input.a.reviewer
             ELSE <<"none">>
      [] last'.op = "AddComment" ->
             IF last'.input.a.commenter_is_signer THEN last'.input.a.commenter
             ELSE <<"none">>
      [] last'.op = "InitializeMint" ->
             IF last'.input.a.initializer_is_signer THEN last'.input.a.initializer
             ELSE <<"none">>

\* The review records: the accounts at a review address.
ReviewAccountsOf(d) == {k \in DOMAIN d : k[1] = "review"}

\* The 32 bytes of the reviewer stored in a review record.
StoredReviewer(data) == SubSeq(data, 4 + data[1] + 2, 4 + data[1] + 33)

\* AddMovieReview and UpdateMovieReview, signed, on a review account that is not
\* the address of (signer, title): InvalidSeeds, and no record changes.  For
\* UpdateMovieReview the account is one the program owns (any other is rejected
\* before, for its owner).
WrongReviewAccountRejected ==
    (/\ last'.op \in {"AddMovieReview", "UpdateMovieReview"}
     /\ last'.input.a.reviewer_is_signer
     /\ last'.op = "UpdateMovieReview" => last'.input.a.movie_review \in DOMAIN account_data
     /\ last'.input.a.movie_review
            # review_address(last'.input.a.reviewer, last'.input.title))
    => last'.result = "InvalidSeeds" /\ account_data' = account_data

\* A review record is created by a step its stored reviewer signs, and changed
\* only by a step the reviewer stored in it signs.
OnlyReviewerWrites ==
    \A k \in ReviewAccountsOf(account_data') :
        /\ k \notin DOMAIN account_data
               => StoredReviewer(account_data'[k]) = KeyBytes(StepSigner)
        /\ k \in DOMAIN account_data /\ account_data'[k] # account_data[k]
               => StoredReviewer(account_data[k]) = KeyBytes(StepSigner)

\* C15: AddMovieReview and UpdateMovieReview fail with InvalidSeeds and change
\* no record when the review account passed is not the address derived from the
\* signing reviewer's key and the title; a review record created by reviewer R
\* is never created or changed by an instruction another account signs.
ReviewsBoundToSigner == [][WrongReviewAccountRejected /\ OnlyReviewerWrites]_vars

\* The bytes of a review record before its rating: discriminator, flag, reviewer.
ReviewHead(data) == 4 + data[1] + 1 + 32

\* The title of a review record, with its length: what follows the rating.
StoredTitle(data) ==
    SubSeq(data, ReviewHead(data) + 2,
           ReviewHead(data) + 5 + data[ReviewHead(data) + 2])

\* What follows the title: `n` bytes of the description, with its length.
StoredDescription(data, n) ==
    SubSeq(data, ReviewHead(data) + 2 + Len(StoredTitle(data)),
           ReviewHead(data) + 1 + Len(StoredTitle(data)) + 4 + n)

\* The encoded size of a review record with this title and description.
EncodedSize(title, description) ==
    Len(ReviewBytes(Alice, 0, title, description))

UpdateMovieReviewStep ==
    LET i == last'.input
        k == last'.input.a.movie_review
    IN  /\ last'.result = "Ok"
           => /\ k \in DOMAIN account_data
              /\ account_data[k][ReviewHead(account_data[k]) - 32] = 1
              /\ Len(account_data'[k]) = Len(account_data[k])
              /\ Prefix(account_data'[k], ReviewHead(account_data[k]))
                     = Prefix(account_data[k], ReviewHead(account_data[k]))
              /\ account_data'[k][ReviewHead(account_data[k]) + 1] = i.rating
              /\ StoredTitle(account_data'[k]) = StoredTitle(account_data[k])
              /\ StoredDescription(account_data'[k], Len(i.description))
                     = StringBytes(i.description)
              /\ \A j \in DOMAIN account_data' \ {k} :
                     j \in DOMAIN account_data /\ account_data'[j] = account_data[j]
              /\ tokens' = tokens /\ mints' = mints
        /\ (\/ i.rating \notin 1..5
            \/ EncodedSize(i.title, i.description) > 1000
            \/ /\ k \in DOMAIN account_data
               /\ account_data[k][ReviewHead(account_data[k]) - 32] = 0)
           => /\ last'.result # "Ok"
              /\ account_data' = account_data /\ tokens' = tokens /\ mints' = mints

\* C16: an UpdateMovieReview(title, rating, description) that succeeds acts on
\* an initialized review record, stores the rating and the description passed
\* and leaves the record's discriminator, is_initialized flag, reviewer and
\* title, and every other account, as they were; with a rating outside 1..5,
\* an encoded size above MAX_SPACE = 1000 or an uninitialized record it fails
\* and changes nothing.
UpdateReplacesRatingAndDescription ==
    [][last'.op = "UpdateMovieReview" => UpdateMovieReviewStep]_vars

\* An UpdateMovieReview stored a rating and a description of another length.
ReviewUpdated ==
    /\ last.op = "UpdateMovieReview" /\ last.result = "Ok"
    /\ last.input.description = Text(102, 5)
    /\ StoredDescription(account_data[last.input.a.movie_review], 5)
           = StringBytes(Text(102, 5))
    /\ account_data[last.input.a.movie_review]
           [ReviewHead(account_data[last.input.a.movie_review]) + 1] = 1


---------------------------------------------------------------------------
(* Properties of the AMM's deposits, withdrawals and swaps, on the step *)
(* of the instruction: unprimed is the ledger before it, primed after   *)

\* the step is the instruction op, and it succeeded
Succeeds(op) == last'.op = op /\ last'.result = "Ok"

\* floor(x * y / z)
MulDiv(x, y, z) == Div(Mul(x, y), z)

\* the amounts the spec's intake rule takes of (a_desired, b_desired) at (Ra, Rb)
IntakeA(a_desired, b_desired, Ra, Rb) ==
    IF Le(MulDiv(a_desired, Rb, Ra), b_desired) THEN a_desired
    ELSE MulDiv(b_desired, Ra, Rb)

IntakeB(a_desired, b_desired, Ra, Rb) ==
    IF Le(MulDiv(a_desired, Rb, Ra), b_desired) THEN MulDiv(a_desired, Rb, Ra)
    ELSE b_desired

ProvideIntakeStep ==
    Succeeds("ProvideLiquidity")
    => LET i  == last'.input
           a  == i.a
           Ra == pools[a.pool].reserve_a
           Rb == pools[a.pool].reserve_b
           take_a == IntakeA(i.amount_a_desired, i.amount_b_desired, Ra, Rb)
           take_b == IntakeB(i.amount_a_desired, i.amount_b_desired, Ra, Rb)
       IN  /\ TokenOwner(a.user_ata_a) = a.user /\ TokenOwner(a.user_ata_b) = a.user
           /\ Add(Balance(tokens', a.user_ata_a), take_a) = Balance(tokens, a.user_ata_a)
           /\ Add(Balance(tokens', a.user_ata_b), take_b) = Balance(tokens, a.user_ata_b)
           /\ Balance(tokens', a.vault_a) = Add(Balance(tokens, a.vault_a), take_a)
           /\ Balance(tokens', a.vault_b) = Add(Balance(tokens, a.vault_b), take_b)
           /\ pools'[a.pool].reserve_a = Add(Ra, take_a)
           /\ pools'[a.pool].reserve_b = Add(Rb, take_b)
           /\ \A k \in DOMAIN tokens \ {a.user_ata_a, a.user_ata_b, a.vault_a,
                                         a.vault_b, a.user_ata_lp} :
                  tokens'[k] = tokens[k]

\* C17: a ProvideLiquidity that succeeds at stored reserves (Ra, Rb) takes
\* (amount_a_desired, b_needed), b_needed = floor(amount_a_desired * Rb / Ra),
\* when b_needed <= amount_b_desired, and (floor(amount_b_desired * Ra / Rb),
\* amount_b_desired) otherwise; the caller's token accounts lose and the vaults
\* gain exactly these amounts, and reserve_a and reserve_b grow by them.
ProvideTakesProportionalIntake == [][ProvideIntakeStep]_vars

\* A deposit was cut on the a side: 3 and 3 offered at reserves (2, 3), where
\* b_needed is 4, and 2 and 3 taken.
ProvideCutOnASide ==
    /\ last.op = "ProvideLiquidity" /\ last.result = "Ok"
    /\ last.calc.reserve_a = FromInt(2) /\ last.calc.reserve_b = FromInt(3)
    /\ last.input.amount_a_desired = FromInt(3)
    /\ last.input.amount_b_desired = FromInt(3)
    /\ pools[last.input.a.pool].reserve_a = FromInt(4)
    /\ pools[last.input.a.pool].reserve_b = FromInt(6)


ProvideSharesStep ==
    Succeeds("ProvideLiquidity")
    => LET i  == last'.input
           a  == i.a
           Ra == pools[a.pool].reserve_a
           Rb == pools[a.pool].reserve_b
           totalLP == Supply(mints, a.mint_lp)
           take_a == IntakeA(i.amount_a_desired, i.amount_b_desired, Ra, Rb)
           take_b == IntakeB(i.amount_a_desired, i.amount_b_desired, Ra, Rb)
           minted == Min(MulDiv(take_a, totalLP, Ra), MulDiv(take_b, totalLP, Rb))
       IN  /\ Balance(tokens', a.user_ata_lp) = Add(Balance(tokens, a.user_ata_lp), minted)
           /\ Supply(mints', a.mint_lp) = Add(totalLP, minted)

\* C18: a ProvideLiquidity that succeeds mints to the caller exactly
\* min(floor(take_a * totalLP / Ra), floor(take_b * totalLP / Rb)) LP tokens,
\* totalLP the LP mint's supply and (Ra, Rb) the reserves before the deposit, and
\* the LP supply grows by exactly that amount.
ProvideMintsSmallerShare == [][ProvideSharesStep]_vars

\* The ledger S with amount burnt from account of mint.
Burnt(S, account, mint, amount) ==
    [S EXCEPT !.tokens[account] = Sub(@, amount), !.mints[mint].supply = Sub(@, amount)]

\* The ledger S with amount moved from source to destination.
Moved(S, source, destination, amount) ==
    [S EXCEPT !.tokens[source] = Sub(@, amount), !.tokens[destination] = Add(@, amount)]

\* The ledger S with the reserves of pool lowered by a_out and b_out.
Lowered(S, pool, a_out, b_out) ==
    [S EXCEPT !.pools[pool].reserve_a = Sub(@, a_out),
              !.pools[pool].reserve_b = Sub(@, b_out)]

\* The ledger before the step, and the one a WithdrawLiquidity of the step's
\* input has made of it when it returns, with or without an error.
LedgerBefore == Ledger(pools, tokens, mints)

WithdrawReturned ==
    process_withdraw_liquidity(LedgerBefore, last'.input.a, last'.input.amount_lp_in,
                               last'.input.amount_a_min, last'.input.amount_b_min,
                               Env(TRUE, last'.input.on_curve))

\* A WithdrawLiquidity that issued n CPIs left the ledger with the burn as the
\* first of them, the transfer of a_out as the second, the transfer of b_out as
\* the third, and the reserves lowered only when it returned Ok.
WithdrawOrderStep ==
    last'.op = "WithdrawLiquidity"
    => LET i  == last'.input
           a  == i.a
           R  == WithdrawReturned
           Ra == pools[a.pool].reserve_a
           Rb == pools[a.pool].reserve_b
           totalLP == Supply(mints, a.mint_lp)
           a_out == MulDiv(i.amount_lp_in, Ra, totalLP)
           b_out == MulDiv(i.amount_lp_in, Rb, totalLP)
           S1 == Burnt(LedgerBefore, a.user_ata_lp, a.mint_lp, i.amount_lp_in)
           S2 == Moved(S1, a.vault_a, a.user_ata_a, a_out)
           S3 == Moved(S2, a.vault_b, a.user_ata_b, b_out)
       IN  /\ last'.result = R.result /\ last'.cpis = R.cpis
           /\ R.cpis \in 0..3
           /\ R.cpis = 0 => R.S = LedgerBefore
           /\ R.cpis = 1 => R.S = S1
           /\ R.cpis = 2 => R.S = S2
           /\ R.cpis = 3 /\ R.result # "Ok" => R.S = S3
           /\ R.result = "Ok"
              => /\ R.cpis = 3
                 /\ TokenOwner(a.user_ata_lp) = a.user
                 /\ TokenOwner(a.user_ata_a) = a.user /\ TokenOwner(a.user_ata_b) = a.user
                 /\ Ledger(pools', tokens', mints') = Lowered(S3, a.pool, a_out, b_out)

\* C19: a WithdrawLiquidity(amount_lp_in, ...) that succeeds first burns exactly
\* amount_lp_in LP tokens of the caller, then transfers
\* a_out = floor(amount_lp_in * Ra / totalLP) of mint_a and
\* b_out = floor(amount_lp_in * Rb / totalLP) of mint_b from the vaults to the
\* caller, and only then lowers reserve_a by a_out and reserve_b by b_out, with
\* Ra, Rb and totalLP the values before the instruction; one that fails on the
\* way has done the steps before the failing one, in this order, and no later one.
WithdrawBurnsThenPaysThenLowers == [][WithdrawOrderStep]_vars

\* A withdrawal paid out of both vaults.
WithdrawPaidBoth ==
    /\ last.op = "WithdrawLiquidity" /\ last.result = "Ok"
    /\ last.calc.a_out # Zero /\ last.calc.b_out # Zero
    /\ Lt(pools[last.input.a.pool].reserve_a, last.calc.reserve_a)
    /\ Lt(pools[last.input.a.pool].reserve_b, last.calc.reserve_b)

\* The mints a Swap names are the two mints of the record stored at the pool
\* account it names, in one of the two orders.
NamesStoredPair(a) ==
    /\ a.pool \in DOMAIN pools
    /\ \/ a.mint_in = pools[a.pool].mint_a /\ a.mint_out = pools[a.pool].mint_b
       \/ a.mint_in = pools[a.pool].mint_b /\ a.mint_out = pools[a.pool].mint_a

SwapDirectionStep ==
    last'.op = "Swap"
    => LET i  == last'.input
           a  == i.a
           p  == pools[a.pool]
           p2 == pools'[a.pool]
           amount_out == Sub(Balance(tokens', a.user_ata_out),
                             Balance(tokens, a.user_ata_out))
       IN  /\ ~NamesStoredPair(a) => last'.result # "Ok" /\ LedgerUnchanged
           /\ last'.result = "Ok" /\ a.mint_in = p.mint_a
              => /\ p2.reserve_a = Add(p.reserve_a, i.amount_in)
                 /\ Add(p2.reserve_b, amount_out) = p.reserve_b
           /\ last'.result = "Ok" /\ a.mint_in = p.mint_b
              => /\ p2.reserve_b = Add(p.reserve_b, i.amount_in)
                 /\ Add(p2.reserve_a, amount_out) = p.reserve_a

\* C20: a Swap that succeeds with mint_in the stored mint_a raises reserve_a by
\* exactly amount_in and lowers reserve_b by exactly the amount paid out, one
\* with mint_in the stored mint_b raises reserve_b and lowers reserve_a; a Swap
\* whose (mint_in, mint_out) is not the stored pair of the pool in one of the two
\* orders fails and changes nothing.
SwapMovesReservesInItsDirection == [][SwapDirectionStep]_vars


\* The step acts on a pool record whose LP mint has a supply of zero.
ActsOnPoolWithoutShares ==
    /\ last'.op \in {"ProvideLiquidity", "WithdrawLiquidity", "Swap"}
    /\ last'.input.a.pool \in DOMAIN pools
    /\ lp_mint_address(last'.input.a.pool) \in DOMAIN mints
    /\ Supply(mints, lp_mint_address(last'.input.a.pool)) = Zero

\* The step names the pool's own accounts, the caller signs and no amount of
\* the instruction is zero: nothing but the missing shares stands against it.
OtherwiseAcceptable ==
    LET i == last'.input
    IN  /\ i.a.user_is_signer
        /\ last'.op = "Swap"
           => i.a \in {SwapAccounts(m[1], m[2], pools[i.a.pool].fee_bps) : m \in MintPairs}
              /\ i.amount_in # Zero
        /\ last'.op = "ProvideLiquidity"
           => i.a \in {PoolAccounts(m[1], m[2], pools[i.a.pool].fee_bps) : m \in MintPairs}
              /\ i.a.mint_a = pools[i.a.pool].mint_a
              /\ i.amount_a_desired # Zero /\ i.amount_b_desired # Zero
        /\ last'.op = "WithdrawLiquidity"
           => i.a \in {PoolAccounts(m[1], m[2], pools[i.a.pool].fee_bps) : m \in MintPairs}
              /\ i.a.mint_a = pools[i.a.pool].mint_a
              /\ i.amount_lp_in # Zero

\* C21: ProvideLiquidity, WithdrawLiquidity and Swap on a pool whose LP supply
\* is zero fail and change nothing, and fail with UninitializedAccount when
\* nothing else stands against the instruction: a pool without shares takes no
\* tokens of a caller.
NoSharesNoAction ==
    [][ActsOnPoolWithoutShares
       => /\ last'.result # "Ok"
          /\ LedgerUnchanged
          /\ OtherwiseAcceptable => last'.result = "UninitializedAccount"]_vars


\* The instruction of the step carries a zero amount.
ZeroAmount ==
    LET i == last'.input
    IN  \/ last'.op = "Swap" /\ i.amount_in = Zero
        \/ last'.op = "WithdrawLiquidity" /\ i.amount_lp_in = Zero
        \/ last'.op = "ProvideLiquidity"
           /\ (i.amount_a_desired = Zero \/ i.amount_b_desired = Zero)
        \/ last'.op = "CreatePool" /\ (i.amount_a = Zero \/ i.amount_b = Zero)

\* The checks a handler makes before it looks at the amounts pass: the signer for
\* Swap and WithdrawLiquidity, the signer and the accounts of the stored pool
\* for ProvideLiquidity, the signer and the derived accounts for CreatePool.
ReachesAmountCheck ==
    LET i == last'.input
    IN  /\ i.a.user_is_signer
        /\ last'.op = "ProvideLiquidity"
           => /\ i.a.pool \in DOMAIN pools
              /\ pool_account_checks(i.a, pools[i.a.pool], i.on_curve) = "Ok"
        /\ last'.op = "CreatePool" => create_pool_account_checks(i.a, i.fee_bps) = "Ok"

ZeroAmountStep ==
    ZeroAmount
    => /\ last'.result # "Ok" /\ last'.cpis = 0 /\ LedgerUnchanged
       /\ ReachesAmountCheck
          => last'.result = IF last'.op = "Swap" THEN "ZeroSwapAmount"
                            ELSE "ZeroLiquidityAmount"

\* C22: an instruction with a zero amount fails before any transfer, mint,
\* burn, account creation or reserve update: Swap with amount_in = 0 with
\* ZeroSwapAmount, also where no pool record can be read; WithdrawLiquidity with
\* amount_lp_in = 0, ProvideLiquidity with a desired amount of 0 and CreatePool
\* with an amount of 0 with ZeroLiquidityAmount.
ZeroAmountsRejected == [][ZeroAmountStep]_vars

\* A Swap of nothing was rejected where the pool account holds no record.
SwapOfNothingWithoutPool ==
    /\ last.op = "Swap" /\ last.result = "ZeroSwapAmount"
    /\ last.input.a.pool \notin DOMAIN pools


\* Every pool record of the state before the step is there after it, with the
\* mints, the fee and the bump it had.
PoolRecordsKeptStep ==
    \A k \in DOMAIN pools :
        /\ k \in DOMAIN pools'
        /\ pools'[k].mint_a = pools[k].mint_a
        /\ pools'[k].mint_b = pools[k].mint_b
        /\ pools'[k].fee_bps = pools[k].fee_bps
        /\ pools'[k].bump = pools[k].bump

\* C23: ProvideLiquidity, WithdrawLiquidity and Swap never change the mint_a,
\* mint_b, fee_bps or bump stored in a pool record and no instruction deletes a
\* pool record: a record, once created, is in every later state with the same
\* mints, fee and bump.
PoolRecordFrame == [][PoolRecordsKeptStep]_vars

\* A pool created with its mints in the order (Y, X) had its reserves rewritten
\* by a Swap.
SwappedOnPoolStoredUnsorted ==
    /\ last.op = "Swap" /\ last.result = "Ok"
    /\ last.input.a.pool \in DOMAIN pools
    /\ KeyLt(pools[last.input.a.pool].mint_b, pools[last.input.a.pool].mint_a)


---------------------------------------------------------------------------
(* Properties of the swap-pool program *)

\* The asset list the pool record stores.
StoredAssets(d) ==
    IF pool_pda.key \in DOMAIN d /\ deserialize_pool(d[pool_pda.key]).ok
    THEN deserialize_pool(d[pool_pda.key]).v.assets
    ELSE <<>>

\* How many times the list names the mint.
TimesListed(assets, mint) == Cardinality({j \in 1..Len(assets) : assets[j] = mint})

\* The mints a successful FundPool has been made with: the pool holds their
\* associated token account.
FundedAssets == {m \in Assets : get_associated_token_address(pool_pda.key, m) \in DOMAIN tokens}

FundPoolStep ==
    (last'.op = "FundPool" /\ last'.result = "Ok") =>
        LET mint == last'.input.a.mint
            record == account_data[pool_pda.key]
            record_after == account_data'[pool_pda.key]
        IN  IF ~contains(StoredAssets(account_data), mint)
            THEN /\ Len(record_after) = Len(record) + 32
                 /\ contains(StoredAssets(account_data'), mint)
            ELSE /\ Len(record_after) = Len(record)
                 /\ StoredAssets(account_data') = StoredAssets(account_data)

FundedAssetsListedOnce == \A m \in FundedAssets : TimesListed(StoredAssets(account_data), m) = 1

\* C24: a successful FundPool with a mint the stored asset list lacks grows
\* the pool record by 32 bytes and the stored list then contains the mint; with
\* a mint the stored list has, the record's size and list stay; the stored
\* list names every funded mint exactly once.
FundPoolKeepsGrowableAssetList == [][FundPoolStep]_vars /\ []FundedAssetsListedOnce


\* The four token accounts a Swap is given are the associated addresses of
\* the pool and of the payer for the receive mint and for the pay mint.
SwapNamesAssociatedAccounts(a) ==
    /\ a.pool_receive_ata = <<"ata", a.pool, a.receive_mint>>
    /\ a.payer_receive_ata = <<"ata", a.payer, a.receive_mint>>
    /\ a.pool_pay_ata = <<"ata", a.pool, a.pay_mint>>
    /\ a.payer_pay_ata = <<"ata", a.payer, a.pay_mint>>

SwapValidation(i) ==
    IF ~SwapNamesAssociatedAccounts(i.a) THEN "InvalidSeeds"
    ELSE IF i.amount_to_swap = Zero THEN "InvalidSwapZeroAmount"
    ELSE IF i.a.receive_mint = i.a.pay_mint THEN "InvalidSwapMatchingAssets"
    ELSE "Ok"

SwapValidatesStep ==
    last'.op = "Swap" =>
        /\ account_data' = account_data
        /\ tokens' = tokens
        /\ lamports' = lamports
        /\ last'.result = SwapValidation(last'.input)

\* C25: Swap of the swap-pool program leaves the pool record and every token
\* balance as they were, whatever its input; it returns InvalidSeeds when one
\* of the four token accounts is not the associated address of its owner and
\* mint, InvalidSwapZeroAmount for amount_to_swap = 0,
\* InvalidSwapMatchingAssets for equal receive and pay mints, and Ok otherwise.
SwapOnlyValidates == [][SwapValidatesStep]_vars

\* A Swap returned Ok for an amount the payer holds and a pool that holds both
\* token accounts.
SwapAcceptedBetweenFundedAssets ==
    /\ last.op = "Swap"
    /\ last.result = "Ok"
    /\ last.input.amount_to_swap = One
    /\ last.input.a.pool_pay_ata \in DOMAIN tokens
    /\ last.input.a.pool_receive_ata \in DOMAIN tokens
    /\ Le(One, tokens[last.input.a.pool_receive_ata])
    /\ Le(One, tokens[last.input.a.payer_pay_ata])


---------------------------------------------------------------------------
(* Invariants of the AMM's pools *)

\* The supply of the pool's LP mint.
TotalLP(pool) == mints[lp_mint_address(pool)].supply

LPBackedByReserves(pool) ==
    Le(Mul(TotalLP(pool), TotalLP(pool)), Mul(pools[pool].reserve_a, pools[pool].reserve_b))

\* C26: in every state the instructions reach, the square of the LP mint's
\* supply is at most the product of the pool's stored reserves.
LPSharesNeverOverIssued == \A pool \in DOMAIN pools : LPBackedByReserves(pool)


\* The token account holds more after the step than before it.
Gained(account) == Lt(Balance(tokens, account), Balance(tokens', account))

DepositForSharesStep ==
    Succeeds("ProvideLiquidity")
    => LET a == last'.input.a
       IN  (Gained(a.vault_a) \/ Gained(a.vault_b))
           => /\ Gained(a.vault_a)
              /\ Gained(a.vault_b)
              /\ Gained(a.user_ata_lp)
              /\ Lt(Supply(mints, a.mint_lp), Supply(mints', a.mint_lp))

\* C27: a ProvideLiquidity that succeeds and moves a positive amount of
\* either token into the vaults moves a positive amount of both and mints at
\* least one LP token to the caller.
DepositNeverAcceptedForNothing == [][DepositForSharesStep]_vars


PoolEmpty(pool) ==
    /\ TotalLP(pool) = Zero
    /\ pools[pool].reserve_a = Zero
    /\ pools[pool].reserve_b = Zero

PoolFunded(pool) ==
    /\ Lt(Zero, TotalLP(pool))
    /\ Lt(Zero, pools[pool].reserve_a)
    /\ Lt(Zero, pools[pool].reserve_b)

\* C28: for every created pool the LP supply and the two stored reserves are
\* all zero or all positive: no swap empties the reserve it pays from, no
\* partial withdrawal empties a reserve, and no reserve holds tokens while the
\* LP supply is zero.
PoolEmptyOrFunded == \A pool \in DOMAIN pools : PoolEmpty(pool) \/ PoolFunded(pool)


\* The intake process_provide_liquidity computed in the step, when it came
\* that far (the pool's stored reserves were positive and the product fitted).
IntakeComputed == last'.op = "ProvideLiquidity" /\ "take_a" \in DOMAIN last'.calc

IntakeWithinOfferStep ==
    IntakeComputed
    => /\ Le(last'.calc.take_a, last'.input.amount_a_desired)
       /\ Le(last'.calc.take_b, last'.input.amount_b_desired)
       /\ last'.result = "Ok"
          => LET a == last'.input.a
             IN  /\ Le(Sub(Balance(tokens, a.user_ata_a), Balance(tokens', a.user_ata_a)),
                       last'.input.amount_a_desired)
                 /\ Le(Sub(Balance(tokens, a.user_ata_b), Balance(tokens', a.user_ata_b)),
                       last'.input.amount_b_desired)

\* C29: the amounts ProvideLiquidity computes as its intake are at most the
\* amounts the caller offered, take_a <= amount_a_desired and
\* take_b <= amount_b_desired, in the branch that takes the a side whole and
\* in the branch that takes the b side whole.
ProvideTakesAtMostOffered == [][IntakeWithinOfferStep]_vars

\* A deposit was cut on the b side: all of amount_a_desired and less than
\* amount_b_desired taken, and the deposit succeeded.
ProvideCutOnBSide ==
    /\ last.op = "ProvideLiquidity"
    /\ last.result = "Ok"
    /\ last.calc.take_a = last.input.amount_a_desired
    /\ Lt(last.calc.take_b, last.input.amount_b_desired)
    /\ Lt(Zero, last.calc.take_b)


---------------------------------------------------------------------------
(* The numbering of the movie-review program's comments *)

\* The comment records whose stored review field is the review.
CommentRecordsOf(review) ==
    {k \in DOMAIN account_data :
        /\ k[1] = "comment"
        /\ deserialize_comment(account_data[k], KnownKeys).ok
        /\ deserialize_comment(account_data[k], KnownKeys).v.is_initialized
        /\ deserialize_comment(account_data[k], KnownKeys).v.review = review}

\* The counts those records carry.
CommentCountsOf(review) ==
    {deserialize_comment(account_data[k], KnownKeys).v.count : k \in CommentRecordsOf(review)}

\* The value of the review's counter account.
CommentCounterOf(review) ==
    deserialize_counter(account_data[counter_address(review)]).v.counter

\* C30: for every review, the review's counter equals the number of comment
\* records that name the review, and those records carry the counts
\* 0, 1, ..., counter - 1, each once.
CommentsNumberedByCounter ==
    \A review \in ReviewAccountsOf(account_data) :
        counter_address(review) \in DOMAIN account_data
        => LET n == Cardinality(CommentRecordsOf(review))
           IN  /\ CommentCounterOf(review) = FromInt(n)
               /\ CommentCountsOf(review) = {FromInt(j) : j \in 0..(n - 1)}

=============================================================================
